---- MODULE Spec2Model ----
(***************************************************************************)
(* Animation-and-movement core of duck_nukem: the Animation frame clock,   *)
(* the Duck (input, physics, ground collision, animation switching), the   *)
(* AngryBread patrol enemy and the Ground surface provider.                *)
(*                                                                         *)
(* Numbers.  deltaTime is in whole milliseconds, as in the source.  The    *)
(* source computes in floating point; the model computes the same          *)
(* expressions exactly, in fixed point: a position is held in units of     *)
(* 1/5000 pixel (Px) and a velocity in units of 1/5 pixel per second       *)
(* (PxPerSec).  With these units  v += g * (deltaTime/1000)  is            *)
(* v + g*deltaTime/200  and  p += v * (deltaTime/1000)  is  p + v*deltaTime*)
(* with no rounding for the constants of the source.                       *)
(***************************************************************************)
EXTENDS Integers, Sequences, FiniteSets, TLC

VARIABLES
    keys,     \* InputHandler.keys: key name -> pressed
    ground,   \* Ground: groundLevel, groundLoaded
    duck,     \* Duck: the fields of the player character
    bread,    \* AngryBread: the fields of one enemy
    anim,     \* a free-standing Animation object (frame clock on its own)
    rs,       \* ground resolution applied twice to one entity state
    cam,      \* Camera: x, targetX, bounds, smoothing
    fr,       \* one duck stepped once by 1000 ms and in steps of 10 ms
    draw,     \* one sprite draw call of Duck.render / AngryBread.render
    game      \* Game: isRunning, lastTime, the pending frame callbacks

vars == <<keys, ground, duck, bread, anim, rs, cam, fr, draw, game>>

----------------------------------------------------------------------------
(* Units *)

Px(n) == n * 5000

PxPerSec(n) == n * 5

\* v + a * dt, a in pixels per second squared, deltaTime in ms
Accelerate(v, a, deltaTime) == v + (a * deltaTime) \div 200

\* p + v * dt
Advance(p, v, deltaTime) == p + v * deltaTime

Abs(n) == IF n < 0 THEN -n ELSE n

----------------------------------------------------------------------------
(* Bounds of the model *)

\* deltaTime of a duck tick that advances time, ms: a frame time between the
\* walk (60) and idle (120) frame durations
TickMs == 110

\* deltaTime values of a duck tick: 0 (two callbacks of one animation frame)
\* and TickMs
DeltaTimes == {0, TickMs}

\* the duck's x stays within this many pixels right of its start
MaxDuckTravel == 72

----------------------------------------------------------------------------
(* InputHandler *)

KeyNames == {"ArrowLeft", "a", "ArrowRight", "d", "ArrowUp", "w", " ", "Shift", "x"}

\* the keys the player uses in the duck's specification
DuckKeys == {"ArrowLeft", "ArrowRight", "ArrowUp", "Shift"}

NoKeys == [k \in KeyNames |-> FALSE]

handleKeyDown(ks, k) == [ks EXCEPT ![k] = TRUE]

\* handleKeyUp releasing nothing
handleKeyUp_Ignored(ks, k) == ks

handleKeyUp(ks, k) == [ks EXCEPT ![k] = FALSE]

isKeyPressed(ks, k) == ks[k]

isMovingLeft(ks) == isKeyPressed(ks, "ArrowLeft") \/ isKeyPressed(ks, "a")

isMovingRight(ks) == isKeyPressed(ks, "ArrowRight") \/ isKeyPressed(ks, "d")

isShooting(ks) == isKeyPressed(ks, "x")

inputIsJumping(ks) ==
    isKeyPressed(ks, "ArrowUp") \/ isKeyPressed(ks, "w") \/ isKeyPressed(ks, " ")

----------------------------------------------------------------------------
(* Ground *)

GameGroundLevel == 820

\* pixels added to the standing surface once the ground sprite has loaded
GrassOffset == 17

NewGround(level) == [groundLevel |-> Px(level), groundLoaded |-> FALSE]

getGroundLevel(g) ==
    IF g.groundLoaded THEN g.groundLevel + Px(GrassOffset) ELSE g.groundLevel

isOnGround(g, entityY, entityHeight) == entityY + entityHeight >= g.groundLevel

----------------------------------------------------------------------------
(* Animation *)

\* new Animation(image, frameWidth, frameHeight, row, frameCount,
\*               frameDuration, loop): elapsedTime and currentFrame start at 0
NewAnimation(image, row, frameCount, frameDuration, loop) ==
    [image |-> image, row |-> row, frameCount |-> frameCount,
     frameDuration |-> frameDuration, loop |-> loop,
     elapsedTime |-> 0, currentFrame |-> 0]

\* NextFrame with the loop flag ignored: the strip always wraps
NextFrame_AlwaysWraps(a, f) == IF f + 1 >= a.frameCount THEN 0 ELSE f + 1

\* the frame that follows frame f of animation a
NextFrame(a, f) ==
    IF f + 1 >= a.frameCount
    THEN (IF a.loop THEN 0 ELSE a.frameCount - 1)
    ELSE f + 1

\* AnimationUpdate carrying the time beyond the frame duration over
AnimationUpdate_KeepsRemainder(a, deltaTime) ==
    LET elapsed == a.elapsedTime + deltaTime IN
    IF elapsed > a.frameDuration
    THEN [a EXCEPT !.elapsedTime = elapsed - a.frameDuration,
                   !.currentFrame = NextFrame(a, a.currentFrame)]
    ELSE [a EXCEPT !.elapsedTime = elapsed]

\* AnimationUpdate advancing as soon as the frame duration is reached
AnimationUpdate_AtThreshold(a, deltaTime) ==
    LET elapsed == a.elapsedTime + deltaTime IN
    IF elapsed >= a.frameDuration
    THEN [a EXCEPT !.elapsedTime = 0, !.currentFrame = NextFrame(a, a.currentFrame)]
    ELSE [a EXCEPT !.elapsedTime = elapsed]

\* AnimationUpdate catching up: one frame for every frame duration elapsed
AnimationUpdate_CatchUp(a, deltaTime) ==
    LET elapsed == a.elapsedTime + deltaTime IN
    IF elapsed > a.frameDuration
    THEN [a EXCEPT !.elapsedTime = 0,
                   !.currentFrame = (a.currentFrame + elapsed \div a.frameDuration)
                                        % a.frameCount]
    ELSE [a EXCEPT !.elapsedTime = elapsed]

AnimationUpdate(a, deltaTime) ==
    LET elapsed == a.elapsedTime + deltaTime IN
    IF elapsed > a.frameDuration
    THEN [a EXCEPT !.elapsedTime = 0, !.currentFrame = NextFrame(a, a.currentFrame)]
    ELSE [a EXCEPT !.elapsedTime = elapsed]

AnimationReset(a) == [a EXCEPT !.currentFrame = 0, !.elapsedTime = 0]

AnimationSetRow(a, row) ==
    IF a.row # row
    THEN [a EXCEPT !.row = row, !.currentFrame = 0, !.elapsedTime = 0]
    ELSE a

----------------------------------------------------------------------------
(* Duck *)

FRAME_DURATION_WALK == 60
FRAME_DURATION_RUN == 40
FRAME_DURATION_JUMP == 50
FRAME_DURATION_IDLE == 120

ANIM_WALK == 0
ANIM_RUN == 1
ANIM_JUMP == 2
ANIM_IDLE == 3

speed == 200
runSpeed == 650
jumpForce == -400
gravity == 800
frameWidth == 76
frameHeight == 90

DuckStartX == 100
DuckStartY == 865

\* new Duck(x, y, inputHandler): no sprite has loaded, animation is null
\* (<<>>; <<a>> holds Animation a)
NewDuck(x0, y0) ==
    [x |-> Px(x0), y |-> Px(y0), velocityX |-> 0, velocityY |-> 0,
     isJumping |-> FALSE, facingLeft |-> FALSE,
     currentAnimType |-> ANIM_IDLE, currentSprite |-> "idle", animation |-> <<>>,
     walkingLoaded |-> FALSE, runningLoaded |-> FALSE,
     jumpingLoaded |-> FALSE, idleLoaded |-> FALSE]

\* the four Animation objects the duck creates; the constructor calls leave
\* out `loop`, so each loops (the parameter's default is true)
IdleAnimation == NewAnimation("idle", 0, 5, FRAME_DURATION_IDLE, TRUE)
WalkAnimation == NewAnimation("walking", 0, 7, FRAME_DURATION_WALK, TRUE)
RunAnimation == NewAnimation("running", 0, 4, FRAME_DURATION_RUN, TRUE)
JumpAnimation == NewAnimation("jumping", 0, 16, FRAME_DURATION_JUMP, TRUE)

\* initializeAnimation without the test of idleLoaded
initializeAnimation_AnyLoad(d) ==
    IF d.currentAnimType = ANIM_IDLE
    THEN [d EXCEPT !.animation = <<IdleAnimation>>]
    ELSE d

\* Duck.initializeAnimation()
initializeAnimation(d) ==
    IF d.idleLoaded /\ d.currentAnimType = ANIM_IDLE
    THEN [d EXCEPT !.animation = <<IdleAnimation>>]
    ELSE d

\* sprite.onload: the loaded flag, then initializeAnimation()
SpriteOnload(d, sprite) ==
    initializeAnimation(
        CASE sprite = "walking" -> [d EXCEPT !.walkingLoaded = TRUE]
          [] sprite = "running" -> [d EXCEPT !.runningLoaded = TRUE]
          [] sprite = "jumping" -> [d EXCEPT !.jumpingLoaded = TRUE]
          [] sprite = "idle" -> [d EXCEPT !.idleLoaded = TRUE])

switchAnimation(d, newAnimType) ==
    LET d1 == [d EXCEPT !.currentAnimType = newAnimType] IN
    IF newAnimType = ANIM_WALK /\ d.walkingLoaded
    THEN [d1 EXCEPT !.currentSprite = "walking", !.animation = <<WalkAnimation>>]
    ELSE IF newAnimType = ANIM_RUN /\ d.runningLoaded
    THEN [d1 EXCEPT !.currentSprite = "running", !.animation = <<RunAnimation>>]
    ELSE IF newAnimType = ANIM_JUMP /\ d.jumpingLoaded
    THEN [d1 EXCEPT !.currentSprite = "jumping", !.animation = <<JumpAnimation>>]
    ELSE IF newAnimType = ANIM_IDLE /\ d.idleLoaded
    THEN [d1 EXCEPT !.currentSprite = "idle", !.animation = <<IdleAnimation>>]
    ELSE d1

\* the locals `moving` and `running` of Duck.update
Moving(ks) == isMovingLeft(ks) \/ isMovingRight(ks)

Running(ks) == Moving(ks) /\ isKeyPressed(ks, "Shift")

\* DuckHorizontal keeping the velocity of the tick before when no
\* horizontal key is held
DuckHorizontal_Coasting(d, ks) ==
    IF isMovingLeft(ks)
    THEN [d EXCEPT !.velocityX = IF isKeyPressed(ks, "Shift")
                                 THEN -PxPerSec(runSpeed) ELSE -PxPerSec(speed),
                   !.facingLeft = TRUE]
    ELSE IF isMovingRight(ks)
    THEN [d EXCEPT !.velocityX = IF isKeyPressed(ks, "Shift")
                                 THEN PxPerSec(runSpeed) ELSE PxPerSec(speed),
                   !.facingLeft = FALSE]
    ELSE d

\* DuckHorizontal turning the duck to the right when no horizontal key is held
DuckHorizontal_FacingReset(d, ks) ==
    IF isMovingLeft(ks)
    THEN [d EXCEPT !.velocityX = IF isKeyPressed(ks, "Shift")
                                 THEN -PxPerSec(runSpeed) ELSE -PxPerSec(speed),
                   !.facingLeft = TRUE]
    ELSE IF isMovingRight(ks)
    THEN [d EXCEPT !.velocityX = IF isKeyPressed(ks, "Shift")
                                 THEN PxPerSec(runSpeed) ELSE PxPerSec(speed),
                   !.facingLeft = FALSE]
    ELSE [d EXCEPT !.velocityX = 0, !.facingLeft = FALSE]

\* horizontal movement: velocityX and facingLeft from this tick's keys
DuckHorizontal(d, ks) ==
    IF isMovingLeft(ks)
    THEN [d EXCEPT !.velocityX = IF isKeyPressed(ks, "Shift")
                                 THEN -PxPerSec(runSpeed) ELSE -PxPerSec(speed),
                   !.facingLeft = TRUE]
    ELSE IF isMovingRight(ks)
    THEN [d EXCEPT !.velocityX = IF isKeyPressed(ks, "Shift")
                                 THEN PxPerSec(runSpeed) ELSE PxPerSec(speed),
                   !.facingLeft = FALSE]
    ELSE [d EXCEPT !.velocityX = 0]

\* JumpStarts without the test that the duck is on the ground
JumpStarts_NoAirborneCheck(d, ks) == inputIsJumping(ks)

\* whether this tick starts a jump
JumpStarts(d, ks) == inputIsJumping(ks) /\ ~d.isJumping

\* DuckJump setting the airborne flag without the impulse
DuckJump_FlagOnly(d, ks) ==
    IF JumpStarts(d, ks)
    THEN [d EXCEPT !.isJumping = TRUE]
    ELSE d

\* "Handle jumping"
DuckJump(d, ks) ==
    IF JumpStarts(d, ks)
    THEN [d EXCEPT !.velocityY = PxPerSec(jumpForce), !.isJumping = TRUE]
    ELSE d

\* gravity, then position
DuckIntegrate(d, deltaTime) ==
    LET vy == Accelerate(d.velocityY, gravity, deltaTime) IN
    [d EXCEPT !.velocityY = vy,
              !.x = Advance(d.x, d.velocityX, deltaTime),
              !.y = Advance(d.y, vy, deltaTime)]

\* DuckGroundCollision leaving the airborne flag as it was
DuckGroundCollision_StillJumping(d, g) ==
    LET duckBottom == d.y + Px(frameHeight) \div 2 IN
    IF duckBottom >= getGroundLevel(g)
    THEN [d EXCEPT !.y = getGroundLevel(g) - Px(frameHeight) \div 2,
                   !.velocityY = 0]
    ELSE d

\* DuckGroundCollision reflecting the vertical velocity instead of zeroing it
DuckGroundCollision_Bounce(d, g) ==
    LET duckBottom == d.y + Px(frameHeight) \div 2 IN
    IF duckBottom >= getGroundLevel(g)
    THEN [d EXCEPT !.y = getGroundLevel(g) - Px(frameHeight) \div 2,
                   !.velocityY = -d.velocityY,
                   !.isJumping = FALSE]
    ELSE d

\* ground collision against ground.getGroundLevel() (Game.update passes the
\* Ground, so the branch without a ground is not taken)
DuckGroundCollision(d, g) ==
    LET duckBottom == d.y + Px(frameHeight) \div 2 IN
    IF duckBottom >= getGroundLevel(g)
    THEN [d EXCEPT !.y = getGroundLevel(g) - Px(frameHeight) \div 2,
                   !.velocityY = 0,
                   !.isJumping = FALSE]
    ELSE d

\* SelectAnimType with the horizontal keys tested before the airborne flag
SelectAnimType_MovingFirst(isJumping, moving, running) ==
    IF moving THEN (IF running THEN ANIM_RUN ELSE ANIM_WALK)
    ELSE IF isJumping THEN ANIM_JUMP
    ELSE ANIM_IDLE

SelectAnimType(isJumping, moving, running) ==
    IF isJumping THEN ANIM_JUMP
    ELSE IF moving THEN (IF running THEN ANIM_RUN ELSE ANIM_WALK)
    ELSE ANIM_IDLE

\* "Switch animation if needed"
DuckSwitch(d, newAnimType) ==
    IF newAnimType # d.currentAnimType THEN switchAnimation(d, newAnimType) ELSE d

\* "Update animation": the jump strip stops at its last frame
DuckAdvanceFrame(d, ks, deltaTime) ==
    LET a == d.animation[1] IN
    IF d.isJumping /\ d.currentAnimType = ANIM_JUMP
    THEN (IF a.currentFrame < 16 - 1
          THEN [d EXCEPT !.animation = <<AnimationUpdate(a, deltaTime)>>]
          ELSE d)
    ELSE IF Moving(ks) \/ d.currentAnimType = ANIM_IDLE
    THEN [d EXCEPT !.animation = <<AnimationUpdate(a, deltaTime)>>]
    ELSE d

DuckAnimate(d, ks, deltaTime) ==
    IF d.animation # <<>>
    THEN DuckAdvanceFrame(
             DuckSwitch(d, SelectAnimType(d.isJumping, Moving(ks), Running(ks))),
             ks, deltaTime)
    ELSE d

\* the duck after physics and ground collision, before the animation part
DuckPhysics(d, ks, g, deltaTime) ==
    DuckGroundCollision(DuckIntegrate(DuckJump(DuckHorizontal(d, ks), ks), deltaTime), g)

\* Duck.update(deltaTime, ground)
DuckUpdate(d, ks, g, deltaTime) == DuckAnimate(DuckPhysics(d, ks, g, deltaTime), ks, deltaTime)

----------------------------------------------------------------------------
(* AngryBread *)

BreadSpeed == 50
BreadGravity == 2000
BreadFrameDuration == 100
BreadFrameSize == 32
walkFrameCount == 5

\* scale 0.3: the scaled height of a frameHeight-pixel frame, and half of it
ScaledHeight(fh) == (Px(fh) * 3) \div 10

HalfScaledHeight(fh) == (Px(fh) * 3) \div 20

\* new AngryBread(x, y, patrolDistance)
NewAngryBread(x0, y0, patrolDistance) ==
    [x |-> Px(x0), y |-> Px(y0),
     velocityX |-> PxPerSec(BreadSpeed), velocityY |-> 0,
     facingLeft |-> FALSE, startX |-> Px(x0), patrolDistance |-> Px(patrolDistance),
     walkingSpriteLoaded |-> FALSE, currentFrame |-> 0, animationTime |-> 0,
     frameWidth |-> BreadFrameSize, frameHeight |-> BreadFrameSize,
     isOnGround |-> FALSE]

\* walkingSprite.onload for an image of the given pixel size: the frame size
\* becomes width / walkFrameCount by height when it differs
BreadSpriteOnload(b, width, height) ==
    LET detectedFrameWidth == width \div walkFrameCount
        detectedFrameHeight == height
        b1 == [b EXCEPT !.walkingSpriteLoaded = TRUE]
    IN  IF detectedFrameWidth # b.frameWidth \/ detectedFrameHeight # b.frameHeight
        THEN [b1 EXCEPT !.frameWidth = detectedFrameWidth,
                        !.frameHeight = detectedFrameHeight]
        ELSE b1

\* updateAnimation advancing only past the frame duration
updateAnimation_Past(b, deltaTime) ==
    LET t == b.animationTime + deltaTime IN
    IF t > BreadFrameDuration
    THEN [b EXCEPT !.currentFrame = (b.currentFrame + 1) % walkFrameCount,
                   !.animationTime = 0]
    ELSE [b EXCEPT !.animationTime = t]

\* AngryBread.updateAnimation(deltaTime)
updateAnimation(b, deltaTime) ==
    LET t == b.animationTime + deltaTime IN
    IF t >= BreadFrameDuration
    THEN [b EXCEPT !.currentFrame = (b.currentFrame + 1) % walkFrameCount,
                   !.animationTime = 0]
    ELSE [b EXCEPT !.animationTime = t]

\* PatrolTurn turning left as soon as the enemy is right of its spawn point
PatrolTurn_AtSpawn(b) ==
    LET distanceFromStart == b.x - b.startX IN
    IF distanceFromStart > 0
    THEN [b EXCEPT !.facingLeft = TRUE, !.velocityX = -Abs(b.velocityX)]
    ELSE IF distanceFromStart <= -b.patrolDistance
    THEN [b EXCEPT !.facingLeft = FALSE, !.velocityX = Abs(b.velocityX)]
    ELSE b

\* PatrolTurn reversing the velocity without the facing
PatrolTurn_KeepsFacing(b) ==
    LET distanceFromStart == b.x - b.startX IN
    IF distanceFromStart >= b.patrolDistance
    THEN [b EXCEPT !.velocityX = -Abs(b.velocityX)]
    ELSE IF distanceFromStart <= -b.patrolDistance
    THEN [b EXCEPT !.velocityX = Abs(b.velocityX)]
    ELSE b

\* PatrolTurn turning only once the enemy is past a bound
PatrolTurn_PastBound(b) ==
    LET distanceFromStart == b.x - b.startX IN
    IF distanceFromStart > b.patrolDistance
    THEN [b EXCEPT !.facingLeft = TRUE, !.velocityX = -Abs(b.velocityX)]
    ELSE IF distanceFromStart < -b.patrolDistance
    THEN [b EXCEPT !.facingLeft = FALSE, !.velocityX = Abs(b.velocityX)]
    ELSE b

\* the turn at a patrol bound, tested before the move
PatrolTurn(b) ==
    LET distanceFromStart == b.x - b.startX IN
    IF distanceFromStart >= b.patrolDistance
    THEN [b EXCEPT !.facingLeft = TRUE, !.velocityX = -Abs(b.velocityX)]
    ELSE IF distanceFromStart <= -b.patrolDistance
    THEN [b EXCEPT !.facingLeft = FALSE, !.velocityX = Abs(b.velocityX)]
    ELSE b

updatePatrolMovement(b, deltaTime) ==
    LET b1 == PatrolTurn(b) IN
    [b1 EXCEPT !.x = Advance(b1.x, b1.velocityX, deltaTime)]

\* BreadGroundCollision that stops the fall where the enemy is
BreadGroundCollision_Stops(b, g) ==
    IF isOnGround(g, b.y, ScaledHeight(b.frameHeight))
    THEN [b EXCEPT !.velocityY = 0, !.isOnGround = TRUE]
    ELSE [b EXCEPT !.isOnGround = FALSE]

\* ground collision: tested with Ground.isOnGround(y, scaledHeight), clamped
\* to getGroundLevel() - scaledHeight / 2
BreadGroundCollision(b, g) ==
    IF isOnGround(g, b.y, ScaledHeight(b.frameHeight))
    THEN [b EXCEPT !.y = getGroundLevel(g) - HalfScaledHeight(b.frameHeight),
                   !.velocityY = 0,
                   !.isOnGround = TRUE]
    ELSE [b EXCEPT !.isOnGround = FALSE]

updatePhysics(b, g, deltaTime) ==
    LET vy == Accelerate(b.velocityY, BreadGravity, deltaTime) IN
    BreadGroundCollision(
        [b EXCEPT !.velocityY = vy, !.y = Advance(b.y, vy, deltaTime)], g)

\* AngryBread.update(deltaTime, ground)
BreadUpdate(b, g, deltaTime) ==
    updatePhysics(updatePatrolMovement(updateAnimation(b, deltaTime), deltaTime),
                  g, deltaTime)

----------------------------------------------------------------------------
(* State of the parts a specification does not use *)

NoDuck == [x |-> 0]
NoBread == [x |-> 0]
NoAnim == [frameCount |-> 0]
NoRs == [pc |-> "none"]
NoCam == [x |-> 0]
NoFr == [pc |-> "none"]
NoDraw == [pc |-> "none"]
NoGame == [isRunning |-> FALSE]

\* the parts only the camera, step-size, draw and game-loop specifications use
RestIdle == cam = NoCam /\ fr = NoFr /\ draw = NoDraw /\ game = NoGame

----------------------------------------------------------------------------
(* The duck under key events, sprite loads and ticks *)

DuckInit ==
    /\ keys = NoKeys
    /\ ground = NewGround(GameGroundLevel)
    /\ duck = NewDuck(DuckStartX, DuckStartY)
    /\ bread = NoBread
    /\ anim = NoAnim
    /\ rs = NoRs
    /\ RestIdle

KeyDown(k) ==
    /\ keys' = handleKeyDown(keys, k)
    /\ UNCHANGED <<ground, duck, bread, anim, rs, cam, fr, draw, game>>

KeyUp(k) ==
    /\ keys' = handleKeyUp(keys, k)
    /\ UNCHANGED <<ground, duck, bread, anim, rs, cam, fr, draw, game>>

DuckSpriteLoad(sprite) ==
    /\ ~(CASE sprite = "walking" -> duck.walkingLoaded
           [] sprite = "running" -> duck.runningLoaded
           [] sprite = "jumping" -> duck.jumpingLoaded
           [] sprite = "idle" -> duck.idleLoaded)
    /\ duck' = SpriteOnload(duck, sprite)
    /\ UNCHANGED <<keys, ground, bread, anim, rs, cam, fr, draw, game>>

GroundSpriteLoad ==
    /\ ~ground.groundLoaded
    /\ ground' = [ground EXCEPT !.groundLoaded = TRUE]
    /\ UNCHANGED <<keys, duck, bread, anim, rs, cam, fr, draw, game>>

DuckInWindow(d) == d.x >= Px(DuckStartX) /\ d.x <= Px(DuckStartX + MaxDuckTravel)

DuckTick(deltaTime) ==
    /\ UNCHANGED <<keys, ground, bread, anim, rs, cam, fr, draw, game>>
    /\ duck' = DuckUpdate(duck, keys, ground, deltaTime)
    /\ DuckInWindow(duck')

DuckSprites == {"walking", "running", "jumping", "idle"}

\* The duck while its own sprites load, in any order, between ticks; the
\* ground sprite has not loaded.
DuckNext ==
    \/ \E k \in DuckKeys : KeyDown(k)
    \/ \E k \in DuckKeys : KeyUp(k)
    \/ \E s \in DuckSprites : DuckSpriteLoad(s)
    \/ \E dt \in DeltaTimes : DuckTick(dt)

DuckSpec == DuckInit /\ [][DuckNext]_vars

\* The duck's physics while the ground sprite loads between ticks; the duck's
\* own sprites have not loaded, so its animation stays null.
DuckGroundNext ==
    \/ \E k \in DuckKeys : KeyDown(k)
    \/ \E k \in DuckKeys : KeyUp(k)
    \/ GroundSpriteLoad
    \/ \E dt \in DeltaTimes : DuckTick(dt)

DuckGroundSpec == DuckInit /\ [][DuckGroundNext]_vars

----------------------------------------------------------------------------
(* One AngryBread under sprite loads and ticks *)

\* deltaTime values of an enemy tick, ms
BreadDeltaTimes == {0, 80, 1000}

\* pixel sizes the walking sprite image may have: five 32x32 frames, or
\* five 64x64 frames
BreadSpriteSizes == {<<160, 32>>, <<320, 64>>}

\* spawn x of the enemy under study
PatrolStartX == 1000

\* new AngryBread(x, 800, 150)
PatrolStartY == 800
PatrolDistance == 150

BreadInit ==
    /\ keys = NoKeys
    /\ ground = NewGround(GameGroundLevel)
    /\ duck = NoDuck
    /\ bread = NewAngryBread(PatrolStartX, PatrolStartY, PatrolDistance)
    /\ anim = NoAnim
    /\ rs = NoRs
    /\ RestIdle

BreadSpriteLoad(size) ==
    /\ ~bread.walkingSpriteLoaded
    /\ bread' = BreadSpriteOnload(bread, size[1], size[2])
    /\ UNCHANGED <<keys, ground, duck, anim, rs, cam, fr, draw, game>>

BreadTick(deltaTime) ==
    /\ bread' = BreadUpdate(bread, ground, deltaTime)
    /\ UNCHANGED <<keys, ground, duck, anim, rs, cam, fr, draw, game>>

BreadNext ==
    \/ \E size \in BreadSpriteSizes : BreadSpriteLoad(size)
    \/ GroundSpriteLoad
    \/ \E dt \in BreadDeltaTimes : BreadTick(dt)

BreadSpec == BreadInit /\ [][BreadNext]_vars

----------------------------------------------------------------------------
(* One Animation object on its own *)

AnimFrameCounts == {1, 4, 16}

AnimFrameDurations == {50, 100}

AnimDeltaTimes == {0, 20, 60, 250}

AnimRows == {0, 1}

AnimInit ==
    /\ keys = NoKeys
    /\ ground = NewGround(GameGroundLevel)
    /\ duck = NoDuck
    /\ bread = NoBread
    /\ \E fc \in AnimFrameCounts, fd \in AnimFrameDurations, loop \in BOOLEAN :
           anim = NewAnimation("strip", 0, fc, fd, loop)
    /\ rs = NoRs
    /\ RestIdle

AnimUpdate(deltaTime) ==
    /\ anim' = AnimationUpdate(anim, deltaTime)
    /\ UNCHANGED <<keys, ground, duck, bread, rs, cam, fr, draw, game>>

AnimReset ==
    /\ anim' = AnimationReset(anim)
    /\ UNCHANGED <<keys, ground, duck, bread, rs, cam, fr, draw, game>>

AnimSetRow(row) ==
    /\ anim' = AnimationSetRow(anim, row)
    /\ UNCHANGED <<keys, ground, duck, bread, rs, cam, fr, draw, game>>

AnimNext ==
    \/ \E dt \in AnimDeltaTimes : AnimUpdate(dt)
    \/ AnimReset
    \/ \E row \in AnimRows : AnimSetRow(row)

AnimSpec == AnimInit /\ [][AnimNext]_vars

----------------------------------------------------------------------------
(* Ground resolution applied twice to one entity state *)

\* how far, in pixels, the entity's centre is from its resting height before
\* the first resolution
ResolveOffsets == -3 .. 3

\* vertical velocities before the first resolution, pixels per second
ResolveVelocities == {-400, 0, 88, 400}

ResolveDuck(off, v, g) ==
    [NewDuck(DuckStartX, 0) EXCEPT
        !.y = getGroundLevel(g) - Px(frameHeight) \div 2 + Px(off),
        !.velocityY = PxPerSec(v),
        !.isJumping = v # 0]

ResolveBread(off, v, g, fh) ==
    [NewAngryBread(PatrolStartX, 0, PatrolDistance) EXCEPT
        !.y = g.groundLevel - ScaledHeight(fh) + Px(off),
        !.velocityY = PxPerSec(v),
        !.frameHeight = fh]

GroundCollision(kind, e, g) ==
    IF kind = "duck" THEN DuckGroundCollision(e, g) ELSE BreadGroundCollision(e, g)

ResolveInit ==
    /\ keys = NoKeys
    /\ \E loaded \in BOOLEAN :
           ground = [NewGround(GameGroundLevel) EXCEPT !.groundLoaded = loaded]
    /\ duck = NoDuck
    /\ bread = NoBread
    /\ anim = NoAnim
    /\ \E kind \in {"duck", "bread"}, off \in ResolveOffsets, v \in ResolveVelocities,
          size \in BreadSpriteSizes :
           rs = [pc |-> "start", kind |-> kind,
                 entity |-> IF kind = "duck" THEN ResolveDuck(off, v, ground)
                            ELSE ResolveBread(off, v, ground, size[2]),
                 before |-> <<>>]
    /\ RestIdle

\* the first ground resolution
ResolveFirst ==
    /\ rs.pc = "start"
    /\ rs' = [rs EXCEPT !.pc = "once",
                        !.entity = GroundCollision(rs.kind, rs.entity, ground)]
    /\ UNCHANGED <<keys, ground, duck, bread, anim, cam, fr, draw, game>>

\* the same resolution again, on the result of the first
ResolveSecond ==
    /\ rs.pc = "once"
    /\ rs' = [rs EXCEPT !.pc = "twice",
                        !.before = <<rs.entity>>,
                        !.entity = GroundCollision(rs.kind, rs.entity, ground)]
    /\ UNCHANGED <<keys, ground, duck, bread, anim, cam, fr, draw, game>>

ResolveNext == ResolveFirst \/ ResolveSecond

ResolveSpec == ResolveInit /\ [][ResolveNext]_vars

----------------------------------------------------------------------------
(* Camera *)

\* The camera's x, targetX and bounds are floating-point numbers; the model
\* holds them on a grid of 1/CamGrid pixel and rounds every sum to the
\* nearest grid point, ties to even, as the floating-point addition rounds
\* to the nearest representable number.  The vertical anchor is independent
\* of the horizontal one (followY) and is left out.
CamGrid == 16

CamPx(n) == n * CamGrid

Max(a, b) == IF a >= b THEN a ELSE b

Min(a, b) == IF a <= b THEN a ELSE b

\* n / d rounded to the nearest integer, ties to even (d > 0)
RoundHalfEven(n, d) ==
    LET q == n \div d
        r == n % d
    IN  IF 2 * r < d THEN q
        ELSE IF 2 * r > d THEN q + 1
        ELSE IF q % 2 = 0 THEN q ELSE q + 1

DefaultSmoothing == 10
DefaultMaxX == 2000

\* new Camera(viewportWidth, viewportHeight); smoothing is held in hundredths
NewCamera(viewportWidth) ==
    [x |-> 0, targetX |-> 0, viewportWidth |-> CamPx(viewportWidth),
     smoothing |-> DefaultSmoothing, minX |-> 0, maxX |-> CamPx(DefaultMaxX)]

\* followTarget without the camera bounds
followTarget_NoBounds(c, x) == [c EXCEPT !.targetX = x - c.viewportWidth \div 2]

followTarget(c, x) ==
    [c EXCEPT !.targetX = Max(c.minX, Min(x - c.viewportWidth \div 2,
                                          c.maxX - c.viewportWidth))]

\* 10000 * Math.pow(smoothing, 1 / 16.67), to the nearest integer, for the
\* smoothings 0.05 and 0.1 (in hundredths)
PowRatio(smoothing) ==
    CASE smoothing = 5 -> 8355
      [] smoothing = 10 -> 8710

\* 10000 * ratio^deltaTime by repeated squaring, every product rounded to
\* the nearest integer; it agrees with
\* 10000 * Math.pow(smoothing, deltaTime / 16.67) to the thousandth
RECURSIVE PowTenThousandths(_, _)
PowTenThousandths(ratio, deltaTime) ==
    IF deltaTime = 0 THEN 10000
    ELSE IF deltaTime % 2 = 1
         THEN (PowTenThousandths(ratio, deltaTime - 1) * ratio + 5000) \div 10000
         ELSE LET half == PowTenThousandths(ratio, deltaTime \div 2)
              IN  (half * half + 5000) \div 10000

\* 1000 * Math.pow(smoothing, deltaTime / 16.67): pow(s, 0) is 1 (also for
\* s = 0), pow(0, t) is 0 and pow(1, t) is 1
PowPerMille(smoothing, deltaTime) ==
    IF deltaTime = 0 THEN 1000
    ELSE IF smoothing = 0 THEN 0
    ELSE IF smoothing = 100 THEN 1000
    ELSE (PowTenThousandths(PowRatio(smoothing), deltaTime) + 5) \div 10

\* factor = 1 - Math.pow(this.smoothing, deltaTime / 16.67), in thousandths
CameraFactor(c, deltaTime) == 1000 - PowPerMille(c.smoothing, deltaTime)

\* CameraUpdate cutting the step off toward zero instead of rounding it
CameraUpdate_Truncating(c, deltaTime) ==
    LET step == (c.targetX - c.x) * CameraFactor(c, deltaTime) IN
    [c EXCEPT !.x = c.x + (IF step >= 0 THEN step \div 1000 ELSE -((-step) \div 1000))]

\* Camera.update(deltaTime)
CameraUpdate(c, deltaTime) ==
    [c EXCEPT !.x = c.x + RoundHalfEven((c.targetX - c.x) * CameraFactor(c, deltaTime),
                                        1000)]

setBounds(c, minX, maxX) == [c EXCEPT !.minX = minX, !.maxX = maxX]

\* smoothing in hundredths, clamped into [0, 1]
setSmoothing(c, smoothing) == [c EXCEPT !.smoothing = Max(0, Min(100, smoothing))]

----------------------------------------------------------------------------
(* One Camera under setBounds, setSmoothing, followTarget and update *)

\* canvas widths: the one index.ts sets and a wider one
ViewportWidths == {800, 1200}

\* arguments of setBounds in pixels: Game's, one with a positive minimum and
\* one narrower than the wider viewport
CamBounds == {<<0, 8000>>, <<500, 8000>>, <<0, 1000>>}

\* arguments of setSmoothing in hundredths: below 0, Game's 0.05, above 1
CamSmoothings == {-50, 5, 150}

\* x of the followed entity, in pixels
CamTargets == {100, 1100, 7950}

\* deltaTime values of a camera update, ms
CamDeltaTimes == {0, 17}

CamOthersIdle ==
    /\ keys = NoKeys
    /\ ground = NewGround(GameGroundLevel)
    /\ duck = NoDuck
    /\ bread = NoBread
    /\ anim = NoAnim
    /\ rs = NoRs
    /\ fr = NoFr
    /\ draw = NoDraw

CamInit ==
    /\ CamOthersIdle
    /\ game = NoGame
    /\ \E w \in ViewportWidths : cam = NewCamera(w)

CamSetBounds(b) ==
    /\ cam' = setBounds(cam, CamPx(b[1]), CamPx(b[2]))
    /\ UNCHANGED <<keys, ground, duck, bread, anim, rs, fr, draw, game>>

CamSetSmoothing(sm) ==
    /\ cam' = setSmoothing(cam, sm)
    /\ UNCHANGED <<keys, ground, duck, bread, anim, rs, fr, draw, game>>

CamFollow(x) ==
    /\ cam' = followTarget(cam, CamPx(x))
    /\ UNCHANGED <<keys, ground, duck, bread, anim, rs, fr, draw, game>>

CamUpdate(deltaTime) ==
    /\ cam' = CameraUpdate(cam, deltaTime)
    /\ UNCHANGED <<keys, ground, duck, bread, anim, rs, fr, draw, game>>

CamNext ==
    \/ \E b \in CamBounds : CamSetBounds(b)
    \/ \E sm \in CamSmoothings : CamSetSmoothing(sm)
    \/ \E x \in CamTargets : CamFollow(x)
    \/ \E deltaTime \in CamDeltaTimes : CamUpdate(deltaTime)

CamSpec == CamInit /\ [][CamNext]_vars

----------------------------------------------------------------------------
(* The camera approaching a clamped target, frame after frame *)

\* the frame time of the display, ms: every update of a run gets the same
\* deltaTime
FrameTimes == {2, 17}

\* x of the followed entity and the world bounds, pixels
FarTargetX == 7950
WorldMaxX == 8000
WideViewport == 1200

\* smoothing Game sets, hundredths
GameSmoothing == 5

\* anchors the camera may be at when followTarget is called, pixels
ConvergeStarts == {n * 400 : n \in 0 .. 16}

ConvergeInit ==
    /\ CamOthersIdle
    /\ \E ms \in FrameTimes : game = [isRunning |-> TRUE, frameMs |-> ms]
    /\ \E x0 \in ConvergeStarts :
           cam = followTarget(
                     [setSmoothing(setBounds(NewCamera(WideViewport), 0, CamPx(WorldMaxX)),
                                   GameSmoothing)
                          EXCEPT !.x = CamPx(x0)],
                     CamPx(FarTargetX))

\* one frame: Camera.update(frame time)
ConvergeFrame ==
    /\ cam' = CameraUpdate(cam, game.frameMs)
    /\ UNCHANGED <<keys, ground, duck, bread, anim, rs, fr, draw, game>>

ConvergeNext == ConvergeFrame

\* frames keep coming while the game runs
ConvergeSpec == ConvergeInit /\ [][ConvergeNext]_vars /\ WF_vars(ConvergeFrame)

----------------------------------------------------------------------------
(* One second of Duck.update in one step and in many small steps *)

\* the small step and how many of them make up the one large step
FineMs == 10
FineSteps == 100

CoarseMs == FineSteps * FineMs

\* the intent held throughout: the keys that stay pressed
HeldKeys ==
    {{}, {"ArrowRight"}, {"ArrowLeft", "Shift"}, {"ArrowUp"}, {" ", "d"},
     {"ArrowRight", "Shift", "w"}}

\* vertical velocities of the start state, pixels per second: at rest on
\* the ground (0), or in the air at this velocity
StepStartVelocities == {0, -400, 120}

\* the duck of Game, standing on the ground after its first update, or in
\* the air 40 pixels above that place
StepStart(v) ==
    LET standing == DuckUpdate(NewDuck(DuckStartX, DuckStartY), NoKeys,
                               NewGround(GameGroundLevel), 0)
    IN  IF v = 0 THEN standing
        ELSE [standing EXCEPT !.y = standing.y - Px(40),
                              !.velocityY = PxPerSec(v), !.isJumping = TRUE]

StepInit ==
    /\ \E held \in HeldKeys : keys = [k \in KeyNames |-> k \in held]
    /\ ground = NewGround(GameGroundLevel)
    /\ duck = NoDuck
    /\ bread = NoBread
    /\ anim = NoAnim
    /\ rs = NoRs
    /\ cam = NoCam
    /\ draw = NoDraw
    /\ game = NoGame
    /\ \E v \in StepStartVelocities :
           fr = [coarse |-> StepStart(v), coarseDone |-> FALSE,
                 fine |-> StepStart(v), fineDone |-> 0]

\* one Duck.update(1000, ground)
StepCoarse ==
    /\ ~fr.coarseDone
    /\ fr' = [fr EXCEPT !.coarse = DuckUpdate(fr.coarse, keys, ground, CoarseMs),
                        !.coarseDone = TRUE]
    /\ UNCHANGED <<keys, ground, duck, bread, anim, rs, cam, draw, game>>

\* one of the 100 Duck.update(10, ground)
StepFine ==
    /\ fr.fineDone < FineSteps
    /\ fr' = [fr EXCEPT !.fine = DuckUpdate(fr.fine, keys, ground, FineMs),
                        !.fineDone = fr.fineDone + 1]
    /\ UNCHANGED <<keys, ground, duck, bread, anim, rs, cam, draw, game>>

StepNext == StepCoarse \/ StepFine

StepSpec == StepInit /\ [][StepNext]_vars

----------------------------------------------------------------------------
(* One sprite draw of Duck.render or AngryBread.render on the canvas *)

\* screen coordinates and widths are held in tenths of a pixel
DrawPx(n) == n * 10

\* drawWidth of the duck: sw * drawScale, every frame is 76 wide
DuckDrawWidth == DrawPx(76)

\* scaledWidth of the bread: frameWidth * 0.3
BreadDrawWidth(fw) == (DrawPx(fw) * 3) \div 10

\* destination x of Duck.render's drawImage with the facing sign reversed
DuckDestX_Unflipped(screenX, drawWidth, facingLeft) == screenX - drawWidth \div 2

\* destination x of Duck.render's drawImage call
DuckDestX(screenX, drawWidth, facingLeft) ==
    IF facingLeft THEN -(screenX + drawWidth \div 2) ELSE screenX - drawWidth \div 2

\* destination x of AngryBread.render's drawImage call
BreadDestX(screenX, scaledWidth, facingLeft) ==
    IF facingLeft THEN -(screenX + scaledWidth \div 2) ELSE screenX - scaledWidth \div 2

\* AngryBread.render returns early when the bread is off screen
BreadVisible(screenX, scaledWidth, viewportWidth) ==
    ~(screenX < -scaledWidth \/ screenX > viewportWidth + scaledWidth)

\* the interval of the canvas a drawImage at dx of width dw covers under
\* the horizontal scale the context has (1, or -1 after ctx.scale(-1, 1))
CanvasFootprint(scaleX, dx, dw) ==
    IF scaleX = 1 THEN <<dx, dx + dw>> ELSE <<-(dx + dw), -dx>>

\* screen x of the entity, pixels
DrawScreenXs == {-20, 0, 38, 333, 500, 799, 815}

DrawKinds == {"duck", "bread"}

CanvasWidth == 800

DrawInit ==
    /\ keys = NoKeys
    /\ ground = NewGround(GameGroundLevel)
    /\ duck = NoDuck
    /\ bread = NoBread
    /\ anim = NoAnim
    /\ rs = NoRs
    /\ cam = NoCam
    /\ fr = NoFr
    /\ game = NoGame
    /\ \E kind \in DrawKinds, sx \in DrawScreenXs, left \in BOOLEAN,
          size \in BreadSpriteSizes :
           draw = [pc |-> "start", kind |-> kind, screenX |-> DrawPx(sx),
                   facingLeft |-> left,
                   width |-> IF kind = "duck" THEN DuckDrawWidth
                             ELSE BreadDrawWidth(size[1] \div walkFrameCount),
                   scaleX |-> 1, saved |-> <<>>, footprint |-> <<>>]

\* the bread is off screen: render returns without drawing
DrawSkip ==
    /\ draw.pc = "start"
    /\ draw.kind = "bread"
    /\ ~BreadVisible(draw.screenX, draw.width, DrawPx(CanvasWidth))
    /\ draw' = [draw EXCEPT !.pc = "skipped"]
    /\ UNCHANGED <<keys, ground, duck, bread, anim, rs, cam, fr, game>>

\* ctx.save()
DrawSave ==
    /\ draw.pc = "start"
    /\ draw.kind = "bread" => BreadVisible(draw.screenX, draw.width, DrawPx(CanvasWidth))
    /\ draw' = [draw EXCEPT !.pc = "saved", !.saved = <<draw.scaleX>>]
    /\ UNCHANGED <<keys, ground, duck, bread, anim, rs, cam, fr, game>>

\* ctx.scale(-1, 1), when facing left
DrawScale ==
    /\ draw.pc = "saved"
    /\ draw.facingLeft
    /\ draw' = [draw EXCEPT !.pc = "scaled", !.scaleX = -draw.scaleX]
    /\ UNCHANGED <<keys, ground, duck, bread, anim, rs, cam, fr, game>>

\* ctx.drawImage(...)
DrawImage ==
    /\ \/ draw.pc = "saved" /\ ~draw.facingLeft
       \/ draw.pc = "scaled"
    /\ LET dx == IF draw.kind = "duck"
                 THEN DuckDestX(draw.screenX, draw.width, draw.facingLeft)
                 ELSE BreadDestX(draw.screenX, draw.width, draw.facingLeft)
       IN  draw' = [draw EXCEPT !.pc = "drawn",
                                !.footprint = CanvasFootprint(draw.scaleX, dx, draw.width)]
    /\ UNCHANGED <<keys, ground, duck, bread, anim, rs, cam, fr, game>>

\* ctx.restore()
DrawRestore ==
    /\ draw.pc = "drawn"
    /\ draw' = [draw EXCEPT !.pc = "restored", !.scaleX = draw.saved[1], !.saved = <<>>]
    /\ UNCHANGED <<keys, ground, duck, bread, anim, rs, cam, fr, game>>

DrawNext == DrawSkip \/ DrawSave \/ DrawScale \/ DrawImage \/ DrawRestore

DrawSpec == DrawInit /\ [][DrawNext]_vars

----------------------------------------------------------------------------
(* Game.start, Game.stop and the frame callbacks of requestAnimationFrame *)

\* milliseconds between two animation frames of the display and the number
\* of frames of a run
GameFrameMs == 17
MaxFrames == 6

\* the most frame callbacks waiting at once
MaxPending == 3

\* x of the first enemy of Game.initializeEnemies, pixels
FirstEnemyX == 800

\* the keys held during a run
GameKeys == {{}, {"ArrowRight"}}

\* a world x of the entities on the camera's grid
CamFromWorld(x) == (x * CamGrid) \div Px(1)

\* new Game(canvas), the page not yet one frame old.  Game's fields are
\* isRunning and lastTime.  now is the timestamp of the latest animation
\* frame; pending counts the callbacks requested for the next frame and
\* queue those of the current frame still to run.  passes lists the passes
\* run in the current frame, prevCallback is the timestamp the callback
\* before got and deltaTime the value update got last (-1: none yet).
NewGame ==
    [isRunning |-> FALSE, lastTime |-> 0, now |-> 0, pending |-> 0, queue |-> 0,
     passes |-> <<>>, prevCallback |-> -1, deltaTime |-> -1]

GameInit ==
    /\ \E held \in GameKeys : keys = [k \in KeyNames |-> k \in held]
    /\ ground = NewGround(GameGroundLevel)
    /\ duck = NewDuck(DuckStartX, DuckStartY)
    /\ bread = NewAngryBread(FirstEnemyX, PatrolStartY, PatrolDistance)
    /\ cam = setSmoothing(setBounds(NewCamera(CanvasWidth), 0, CamPx(WorldMaxX)),
                          GameSmoothing)
    /\ game = NewGame
    /\ anim = NoAnim
    /\ rs = NoRs
    /\ fr = NoFr
    /\ draw = NoDraw

\* Game.start(), called from an event handler between two frames
GameStart ==
    /\ game.queue = 0
    /\ game.pending < MaxPending
    /\ game' = [game EXCEPT !.isRunning = TRUE, !.pending = @ + 1]
    /\ UNCHANGED <<keys, ground, duck, bread, anim, rs, cam, fr, draw>>

\* Game.stop()
GameStop ==
    /\ game.queue = 0
    /\ game' = [game EXCEPT !.isRunning = FALSE]
    /\ UNCHANGED <<keys, ground, duck, bread, anim, rs, cam, fr, draw>>

\* the browser begins an animation frame: the callbacks requested so far
\* are the ones it runs, all with the frame's timestamp
FrameBegin ==
    /\ game.queue = 0
    /\ game.now < MaxFrames * GameFrameMs
    /\ game' = [game EXCEPT !.now = @ + GameFrameMs, !.queue = game.pending,
                            !.pending = 0, !.passes = <<>>]
    /\ UNCHANGED <<keys, ground, duck, bread, anim, rs, cam, fr, draw>>

\* gameLoop returning at once, as if the game always ran
GameLoopReturns_Never(g) == FALSE

\* if (!this.isRunning) return;
GameLoopReturns(g) == ~g.isRunning

\* Game.gameLoop(timestamp) with the timestamp of the current frame
GameLoop ==
    /\ game.queue > 0
    /\ IF GameLoopReturns(game)
       THEN /\ game' = [game EXCEPT !.queue = @ - 1, !.prevCallback = game.now]
            /\ UNCHANGED <<duck, bread, cam>>
       ELSE LET deltaTime == game.now - game.lastTime
                d == DuckUpdate(duck, keys, ground, deltaTime)
            IN  /\ duck' = d
                /\ bread' = BreadUpdate(bread, ground, deltaTime)
                /\ cam' = CameraUpdate(followTarget(cam, CamFromWorld(d.x)), deltaTime)
                /\ game' = [game EXCEPT !.lastTime = game.now,
                                        !.queue = @ - 1,
                                        !.pending = @ + 1,
                                        !.passes = @ \o <<"update", "render">>,
                                        !.prevCallback = game.now,
                                        !.deltaTime = deltaTime]
    /\ UNCHANGED <<keys, ground, anim, rs, fr, draw>>

GameNext == GameStart \/ GameStop \/ FrameBegin \/ GameLoop

GameSpec == GameInit /\ [][GameNext]_vars

----------------------------------------------------------------------------
(* The render pass of a tick while the sprites load *)

\* ticks of a run
MaxLoadTicks == 3

\* the keys the player uses while the sprites load
LoadKeys == {"ArrowRight", "ArrowUp", "Shift"}

\* xxxLoaded of the sprite
DuckSpriteLoaded(d, sprite) ==
    CASE sprite = "walking" -> d.walkingLoaded
      [] sprite = "running" -> d.runningLoaded
      [] sprite = "jumping" -> d.jumpingLoaded
      [] sprite = "idle" -> d.idleLoaded

\* what Duck.render draws: the current sprite when the animation exists
\* (frameWidth, frameHeight and currentSprite are always set), the white
\* placeholder square otherwise
DuckRender(d) ==
    IF d.animation # <<>>
    THEN [op |-> "drawImage", image |-> d.currentSprite]
    ELSE [op |-> "fillRect", image |-> "none"]

\* camera.worldToScreenX(x) of an entity's x, in tenths of a pixel
ScreenX(c, x) == x \div (Px(1) \div DrawPx(1)) - (c.x * DrawPx(1)) \div CamGrid

\* what AngryBread.render draws
BreadRender(b, c) ==
    IF ~b.walkingSpriteLoaded
    THEN [op |-> "none", image |-> "none"]
    ELSE IF ~BreadVisible(ScreenX(c, b.x), BreadDrawWidth(b.frameWidth),
                          (c.viewportWidth * DrawPx(1)) \div CamGrid)
    THEN [op |-> "none", image |-> "none"]
    ELSE [op |-> "drawImage", image |-> "breadWalking"]

LoadInit ==
    /\ keys = NoKeys
    /\ ground = NewGround(GameGroundLevel)
    /\ duck = NewDuck(DuckStartX, DuckStartY)
    /\ bread = NewAngryBread(FirstEnemyX, PatrolStartY, PatrolDistance)
    /\ cam = setSmoothing(setBounds(NewCamera(CanvasWidth), 0, CamPx(WorldMaxX)),
                          GameSmoothing)
    /\ draw = [pc |-> "loading", ticks |-> 0,
               duck |-> [op |-> "none", image |-> "none"],
               bread |-> [op |-> "none", image |-> "none"]]
    /\ anim = NoAnim
    /\ rs = NoRs
    /\ fr = NoFr
    /\ game = NoGame

LoadKeyDown(k) ==
    /\ keys' = handleKeyDown(keys, k)
    /\ UNCHANGED <<ground, duck, bread, anim, rs, cam, fr, draw, game>>

LoadKeyUp(k) ==
    /\ keys[k]
    /\ keys' = handleKeyUp(keys, k)
    /\ UNCHANGED <<ground, duck, bread, anim, rs, cam, fr, draw, game>>

\* one tick of the running game: Game.update, then Game.render; draw keeps
\* what the enemy's and the duck's render drew
LoadTick ==
    /\ draw.ticks < MaxLoadTicks
    /\ LET d == DuckUpdate(duck, keys, ground, TickMs)
           b == BreadUpdate(bread, ground, TickMs)
           c == CameraUpdate(followTarget(cam, CamFromWorld(d.x)), TickMs)
       IN  /\ duck' = d
           /\ bread' = b
           /\ cam' = c
           /\ draw' = [pc |-> "rendered", ticks |-> draw.ticks + 1,
                       duck |-> DuckRender(d), bread |-> BreadRender(b, c)]
    /\ UNCHANGED <<keys, ground, anim, rs, fr, game>>

LoadNext ==
    \/ \E k \in LoadKeys : LoadKeyDown(k)
    \/ \E k \in LoadKeys : LoadKeyUp(k)
    \/ \E s \in DuckSprites : DuckSpriteLoad(s)
    \/ \E size \in BreadSpriteSizes : BreadSpriteLoad(size)
    \/ GroundSpriteLoad
    \/ LoadTick

LoadSpec == LoadInit /\ [][LoadNext]_vars

----------------------------------------------------------------------------
(* The source rectangle of Duck.render *)

\* { x, y, width: 76, height: 90 } of a frame table
FrameData(x, y) == [x |-> x, y |-> y, width |-> frameWidth, height |-> frameHeight]

walkFrameData ==
    <<FrameData(0, 0), FrameData(76, 0), FrameData(152, 0), FrameData(228, 0),
      FrameData(304, 0), FrameData(380, 0), FrameData(456, 0)>>

runFrameData ==
    <<FrameData(0, 0), FrameData(76, 0), FrameData(152, 0), FrameData(228, 0)>>

idleFrameData ==
    <<FrameData(0, 0), FrameData(76, 0), FrameData(152, 0), FrameData(228, 0),
      FrameData(304, 0)>>

\* the inner loop over the columns of one row of the jump sheet
JumpColumns == 8
JumpRows == 2

JumpRowData(row) == [c \in 1 .. JumpColumns |-> FrameData((c - 1) * 76, row * 90)]

\* the pushes of the loops over row and col, in their order
RECURSIVE JumpRowsFrom(_)
JumpRowsFrom(row) ==
    IF row >= JumpRows THEN <<>> ELSE JumpRowData(row) \o JumpRowsFrom(row + 1)

\* the jump table filled column by column
jumpFrameData_ColumnMajor ==
    [i \in 1 .. JumpColumns * JumpRows |->
        FrameData(((i - 1) \div JumpRows) * 76, ((i - 1) % JumpRows) * 90)]

jumpFrameData == JumpRowsFrom(0)

\* the source rectangle taken from the Animation's frame without a table
DuckSourceRect_Unchecked(d) == FrameData(d.animation[1].currentFrame * 76, 0)

\* sx, sy, sw, sh of Duck.render for a duck with an animation: the entry of
\* the current state's table when the frame is below its length (the jump
\* frame clamped first), else the initial values 0, 0, 76, 90
DuckSourceRect(d) ==
    LET frame == d.animation[1].currentFrame
        initial == [x |-> 0, y |-> 0, width |-> 76, height |-> 90]
        clampedFrame == Max(0, Min(frame, Len(jumpFrameData) - 1))
    IN  CASE d.currentAnimType = ANIM_WALK ->
                 IF frame < Len(walkFrameData) THEN walkFrameData[frame + 1] ELSE initial
          [] d.currentAnimType = ANIM_RUN ->
                 IF frame < Len(runFrameData) THEN runFrameData[frame + 1] ELSE initial
          [] d.currentAnimType = ANIM_JUMP ->
                 IF clampedFrame < Len(jumpFrameData)
                 THEN jumpFrameData[clampedFrame + 1] ELSE initial
          [] d.currentAnimType = ANIM_IDLE ->
                 IF frame < Len(idleFrameData) THEN idleFrameData[frame + 1] ELSE initial

\* the frame table Duck.render uses for an animation state
FrameTable(type) ==
    CASE type = ANIM_WALK -> walkFrameData
      [] type = ANIM_RUN -> runFrameData
      [] type = ANIM_JUMP -> jumpFrameData
      [] type = ANIM_IDLE -> idleFrameData

----------------------------------------------------------------------------
(* An Animation constructed with any frame count and frame duration *)

\* arguments of the constructor: frame counts and frame durations (ms),
\* valid ones and ones no strip has
ConfigFrameCounts == {0, 1, 3}

ConfigFrameDurations == {-40, 0, 40}

ConfigDeltaTimes == {0, 17, 30}

\* update calls on one Animation
MaxConfigUpdates == 4

\* before the constructor call there is no Animation; rs counts the update
\* calls made on the one constructed
ConfigInit ==
    /\ keys = NoKeys
    /\ ground = NewGround(GameGroundLevel)
    /\ duck = NoDuck
    /\ bread = NoBread
    /\ anim = NoAnim
    /\ rs = [pc |-> "unconstructed", updates |-> 0]
    /\ RestIdle

\* new Animation(image, 76, 90, 0, frameCount, frameDuration, loop): the
\* constructor stores its arguments and tests none
ConfigConstruct(frameCount, frameDuration, loop) ==
    /\ rs.pc = "unconstructed"
    /\ anim' = NewAnimation("strip", 0, frameCount, frameDuration, loop)
    /\ rs' = [rs EXCEPT !.pc = "constructed"]
    /\ UNCHANGED <<keys, ground, duck, bread, cam, fr, draw, game>>

ConfigUpdate(deltaTime) ==
    /\ rs.pc = "constructed"
    /\ rs.updates < MaxConfigUpdates
    /\ anim' = AnimationUpdate(anim, deltaTime)
    /\ rs' = [rs EXCEPT !.updates = @ + 1]
    /\ UNCHANGED <<keys, ground, duck, bread, cam, fr, draw, game>>

ConfigNext ==
    \/ \E fc \in ConfigFrameCounts, fd \in ConfigFrameDurations, loop \in BOOLEAN :
           ConfigConstruct(fc, fd, loop)
    \/ \E dt \in ConfigDeltaTimes : ConfigUpdate(dt)

ConfigSpec == ConfigInit /\ [][ConfigNext]_vars

----------------------------------------------------------------------------
(* Camera.worldToScreen and screenToWorld there and back *)

\* Coordinates and anchors are floating-point numbers: a difference or sum
\* is the exact one rounded to the nearest representable number, ties to
\* even.  The model keeps the binary format and shortens its significand to
\* MantissaBits bits (a double has 53), so that rounding shows on small
\* integers.
MantissaBits == 4

RECURSIVE Pow2(_)
Pow2(n) == IF n = 0 THEN 1 ELSE 2 * Pow2(n - 1)

\* the spacing of the representable numbers around n, at least u
RECURSIVE FloatUlpFrom(_, _)
FloatUlpFrom(n, u) ==
    IF Abs(n) < Pow2(MantissaBits) * u THEN u ELSE FloatUlpFrom(n, 2 * u)

\* the representable number nearest to n
FloatRound(n) ==
    LET u == FloatUlpFrom(n, 1) IN RoundHalfEven(n, u) * u

\* worldToScreenX with the anchor added instead of subtracted
worldToScreenX_Plus(c, worldX) == FloatRound(worldX + c.x)

worldToScreenX(c, worldX) == FloatRound(worldX - c.x)

worldToScreenY(c, worldY) == FloatRound(worldY - c.y)

screenToWorldX(c, screenX) == FloatRound(screenX + c.x)

screenToWorldY(c, screenY) == FloatRound(screenY + c.y)

\* the largest coordinate and anchor of a run
MaxCoord == 40

\* the representable coordinates and anchors
FloatCoords == {n \in 0 .. MaxCoord : FloatRound(n) = n}

\* vertical anchors: Camera.y is the fixed value the constructor computes
FloatAnchorsY == {0, 15, 22}

\* the two conversions tried first
TripStarts == {"worldToScreen", "screenToWorld"}

\* cam holds the anchors x and y, the coordinate p given, the conversion
\* tried first, and the results mid (after the first conversion) and back
\* (after the second) for the X and the Y pair
TripInit ==
    /\ keys = NoKeys
    /\ ground = NewGround(GameGroundLevel)
    /\ duck = NoDuck
    /\ bread = NoBread
    /\ anim = NoAnim
    /\ rs = NoRs
    /\ fr = NoFr
    /\ draw = NoDraw
    /\ game = NoGame
    /\ \E x \in FloatCoords, y \in FloatAnchorsY, p \in FloatCoords, first \in TripStarts :
           cam = [x |-> x, y |-> y, p |-> p, first |-> first, pc |-> "start",
                  midX |-> 0, midY |-> 0, backX |-> 0, backY |-> 0]

TripFirst ==
    /\ cam.pc = "start"
    /\ cam' = IF cam.first = "worldToScreen"
              THEN [cam EXCEPT !.pc = "mid",
                               !.midX = worldToScreenX(cam, cam.p),
                               !.midY = worldToScreenY(cam, cam.p)]
              ELSE [cam EXCEPT !.pc = "mid",
                               !.midX = screenToWorldX(cam, cam.p),
                               !.midY = screenToWorldY(cam, cam.p)]
    /\ UNCHANGED <<keys, ground, duck, bread, anim, rs, fr, draw, game>>

TripSecond ==
    /\ cam.pc = "mid"
    /\ cam' = IF cam.first = "worldToScreen"
              THEN [cam EXCEPT !.pc = "done",
                               !.backX = screenToWorldX(cam, cam.midX),
                               !.backY = screenToWorldY(cam, cam.midY)]
              ELSE [cam EXCEPT !.pc = "done",
                               !.backX = worldToScreenX(cam, cam.midX),
                               !.backY = worldToScreenY(cam, cam.midY)]
    /\ UNCHANGED <<keys, ground, duck, bread, anim, rs, fr, draw, game>>

TripNext == TripFirst \/ TripSecond

TripSpec == TripInit /\ [][TripNext]_vars

----------------------------------------------------------------------------
(* One tick of the game, statement group by statement group *)

\* ticks of a run
MaxStageTicks == 3

\* the statement groups of gameLoop in the order of the source:
\* Duck.update (input and integration, ground collision, animation
\* switching, animation update), the enemies' update, camera.followTarget,
\* camera.update, and Game.render
TickStages_SelectFirst ==
    <<"select", "integrate", "resolve", "advance", "enemies", "follow", "camera",
      "render">>

TickStages ==
    <<"integrate", "resolve", "select", "advance", "enemies", "follow", "camera",
      "render">>

\* the stage after the i-th, "idle" after the last
StageAfter(i) == IF i < Len(TickStages) THEN TickStages[i + 1] ELSE "idle"

\* the keys the player uses between the ticks
StageKeys == {"ArrowRight", "ArrowUp"}

\* x of the duck when the run starts, pixels: where Game puts it, and
\* further into the world, past half a viewport
StageStartXs == {100, 1000}

\* the duck on the ground or in the air near it, the enemy and the camera of
\* Game; the camera has settled on the duck.  game holds the position in the
\* tick (pc, at), the stages done in the tick (log), the duck at the start
\* of the tick (before) and isJumping as the ground collision left it
\* (resolved).
StageInit ==
    /\ keys = NoKeys
    /\ ground = NewGround(GameGroundLevel)
    /\ \E v \in StepStartVelocities, x \in StageStartXs :
           /\ duck = [StepStart(v) EXCEPT !.x = Px(x)]
           /\ LET c == followTarget(
                           setSmoothing(setBounds(NewCamera(CanvasWidth), 0, CamPx(WorldMaxX)),
                                        GameSmoothing),
                           CamPx(x))
              IN  cam = [c EXCEPT !.x = c.targetX]
           /\ game = [pc |-> "idle", at |-> 0, ticks |-> 0, log |-> <<>>,
                      before |-> [StepStart(v) EXCEPT !.x = Px(x)],
                      resolved |-> FALSE]
    /\ bread = NewAngryBread(FirstEnemyX, PatrolStartY, PatrolDistance)
    /\ draw = [pc |-> "none"]
    /\ anim = NoAnim
    /\ rs = NoRs
    /\ fr = NoFr

\* events reach their handlers between two ticks only
StageKeyDown(k) == game.pc = "idle" /\ KeyDown(k)

StageKeyUp(k) == game.pc = "idle" /\ keys[k] /\ KeyUp(k)

StageSpriteLoad(sprite) == game.pc = "idle" /\ DuckSpriteLoad(sprite)

\* gameLoop is entered
StageBegin ==
    /\ game.pc = "idle"
    /\ game.ticks < MaxStageTicks
    /\ game' = [game EXCEPT !.pc = TickStages[1], !.at = 1, !.ticks = @ + 1,
                            !.log = <<>>, !.before = duck]
    /\ UNCHANGED <<keys, ground, duck, bread, anim, rs, cam, fr, draw>>

\* the statement group the tick has come to
StageStep ==
    /\ game.pc # "idle"
    /\ duck' = CASE game.pc = "integrate" ->
                        DuckIntegrate(DuckJump(DuckHorizontal(duck, keys), keys), TickMs)
                 [] game.pc = "resolve" -> DuckGroundCollision(duck, ground)
                 [] game.pc = "select" ->
                        IF duck.animation # <<>>
                        THEN DuckSwitch(duck, SelectAnimType(duck.isJumping, Moving(keys),
                                                             Running(keys)))
                        ELSE duck
                 [] game.pc = "advance" ->
                        IF duck.animation # <<>>
                        THEN DuckAdvanceFrame(duck, keys, TickMs)
                        ELSE duck
                 [] OTHER -> duck
    /\ bread' = IF game.pc = "enemies" THEN BreadUpdate(bread, ground, TickMs) ELSE bread
    /\ cam' = CASE game.pc = "follow" -> followTarget(cam, CamFromWorld(duck.x))
                [] game.pc = "camera" -> CameraUpdate(cam, TickMs)
                [] OTHER -> cam
    /\ draw' = IF game.pc = "render"
               THEN [pc |-> "rendered", duck |-> DuckRender(duck),
                     bread |-> BreadRender(bread, cam)]
               ELSE draw
    /\ game' = [game EXCEPT !.pc = StageAfter(game.at),
                            !.at = IF game.at < Len(TickStages) THEN @ + 1 ELSE 0,
                            !.log = Append(@, game.pc),
                            !.resolved = IF game.pc = "resolve"
                                         THEN DuckGroundCollision(duck, ground).isJumping
                                         ELSE @]
    /\ UNCHANGED <<keys, ground, anim, rs, fr>>

StageNext ==
    \/ \E k \in StageKeys : StageKeyDown(k)
    \/ \E k \in StageKeys : StageKeyUp(k)
    \/ \E s \in DuckSprites : StageSpriteLoad(s)
    \/ StageBegin
    \/ StageStep

StageSpec == StageInit /\ [][StageNext]_vars

----------------------------------------------------------------------------
(* One AngryBread under ticks that keep coming, each with time passing *)

\* deltaTime values of a tick on which time passes, ms
PatrolDeltaTimes == {80, 1000}

PatrolTick == \E dt \in PatrolDeltaTimes : BreadTick(dt)

PatrolNext ==
    \/ \E size \in BreadSpriteSizes : BreadSpriteLoad(size)
    \/ GroundSpriteLoad
    \/ PatrolTick

\* the game loop goes on calling update
PatrolSpec == BreadInit /\ [][PatrolNext]_vars /\ WF_vars(PatrolTick)

----------------------------------------------------------------------------
(* The walk cycle of one AngryBread *)

\* deltaTime values of a tick, ms: no time, parts of the 100 ms frame
\* duration that add up to it, and more than it
WalkDeltaTimes == {0, 20, 50, 250}

\* ticks of a run
MaxWalkTicks == 6

\* rs counts the ticks and keeps the accumulated time the last tick tested
WalkInit ==
    /\ keys = NoKeys
    /\ ground = NewGround(GameGroundLevel)
    /\ duck = NoDuck
    /\ bread = NewAngryBread(PatrolStartX, PatrolStartY, PatrolDistance)
    /\ anim = NoAnim
    /\ rs = [pc |-> "walk", updates |-> 0, accumulated |-> 0]
    /\ RestIdle

WalkTick(deltaTime) ==
    /\ rs.updates < MaxWalkTicks
    /\ bread' = BreadUpdate(bread, ground, deltaTime)
    /\ rs' = [rs EXCEPT !.updates = @ + 1,
                        !.accumulated = bread.animationTime + deltaTime]
    /\ UNCHANGED <<keys, ground, duck, anim, cam, fr, draw, game>>

WalkNext ==
    \/ \E size \in BreadSpriteSizes : BreadSpriteLoad(size)
    \/ \E dt \in WalkDeltaTimes : WalkTick(dt)

WalkSpec == WalkInit /\ [][WalkNext]_vars

----------------------------------------------------------------------------
(* The duck and one AngryBread against the ground, tick by tick *)

\* deltaTime values of a tick, ms: no time, a frame, a long pause
SurfaceDeltaTimes == {0, 110, 1000}

\* ticks of a run
MaxSurfaceTicks == 4

\* the keys the player uses
SurfaceKeys == {"ArrowUp"}

\* the entities as Game constructs them; rs counts the ticks
SurfaceInit ==
    /\ keys = NoKeys
    /\ ground = NewGround(GameGroundLevel)
    /\ duck = NewDuck(DuckStartX, DuckStartY)
    /\ bread = NewAngryBread(FirstEnemyX, PatrolStartY, PatrolDistance)
    /\ cam = setSmoothing(setBounds(NewCamera(CanvasWidth), 0, CamPx(WorldMaxX)),
                          GameSmoothing)
    /\ rs = [pc |-> "surface", updates |-> 0]
    /\ anim = NoAnim
    /\ fr = NoFr
    /\ draw = NoDraw
    /\ game = NoGame

SurfaceKeyDown(k) ==
    /\ keys' = handleKeyDown(keys, k)
    /\ UNCHANGED <<ground, duck, bread, anim, rs, cam, fr, draw, game>>

SurfaceKeyUp(k) ==
    /\ keys[k]
    /\ keys' = handleKeyUp(keys, k)
    /\ UNCHANGED <<ground, duck, bread, anim, rs, cam, fr, draw, game>>

\* Game.update(deltaTime)
SurfaceTick(deltaTime) ==
    /\ rs.updates < MaxSurfaceTicks
    /\ duck' = DuckUpdate(duck, keys, ground, deltaTime)
    /\ bread' = BreadUpdate(bread, ground, deltaTime)
    /\ cam' = CameraUpdate(followTarget(cam, CamFromWorld(duck'.x)), deltaTime)
    /\ rs' = [rs EXCEPT !.updates = @ + 1]
    /\ UNCHANGED <<keys, ground, anim, fr, draw, game>>

SurfaceNext ==
    \/ \E k \in SurfaceKeys : SurfaceKeyDown(k)
    \/ \E k \in SurfaceKeys : SurfaceKeyUp(k)
    \/ \E size \in BreadSpriteSizes : BreadSpriteLoad(size)
    \/ GroundSpriteLoad
    \/ \E dt \in SurfaceDeltaTimes : SurfaceTick(dt)

SurfaceSpec == SurfaceInit /\ [][SurfaceNext]_vars

----------------------------------------------------------------------------
(* The duck's jumps under ticks that keep coming, each with time passing *)

\* deltaTime values of a tick on which time passes, ms
LandDeltaTimes == {50, TickMs}

\* the keys the player uses: a jump key and the run modifier
LandKeys == {"ArrowUp", "Shift"}

LandTick == \E dt \in LandDeltaTimes : DuckTick(dt)

LandNext ==
    \/ \E k \in LandKeys : KeyDown(k)
    \/ \E k \in LandKeys : KeyUp(k)
    \/ GroundSpriteLoad
    \/ LandTick

\* the game loop goes on calling update
LandSpec == DuckInit /\ [][LandNext]_vars /\ WF_vars(LandTick)

----------------------------------------------------------------------------
(* The tick on which a jump starts, for short and long frames *)

\* deltaTime values of a tick, ms: from the shortest frame to just under
\* half a second
HopDeltaTimes == {1, 17, TickMs, 499}

\* ticks of a run
MaxHopTicks == 4

\* the jump keys the player uses
HopKeys == {"ArrowUp", " "}

\* rs counts the ticks and keeps the last tick's deltaTime and whether it
\* started with a jump key held and the duck resting on the surface
HopInit ==
    /\ keys = NoKeys
    /\ ground = NewGround(GameGroundLevel)
    /\ duck = NewDuck(DuckStartX, DuckStartY)
    /\ bread = NoBread
    /\ anim = NoAnim
    /\ rs = [pc |-> "hop", updates |-> 0, deltaTime |-> 0, fromRest |-> FALSE]
    /\ RestIdle

HopTick(deltaTime) ==
    /\ rs.updates < MaxHopTicks
    /\ duck' = DuckUpdate(duck, keys, ground, deltaTime)
    /\ rs' = [rs EXCEPT !.updates = @ + 1, !.deltaTime = deltaTime,
                        !.fromRest = /\ inputIsJumping(keys)
                                     /\ ~duck.isJumping
                                     /\ duck.y + Px(frameHeight) \div 2
                                            = getGroundLevel(ground)]
    /\ UNCHANGED <<keys, ground, bread, anim, cam, fr, draw, game>>

HopNext ==
    \/ \E k \in HopKeys : KeyDown(k)
    \/ \E k \in HopKeys : keys[k] /\ KeyUp(k)
    \/ GroundSpriteLoad
    \/ \E dt \in HopDeltaTimes : HopTick(dt)

HopSpec == HopInit /\ [][HopNext]_vars

----------------------------------------------------------------------------
(* One AngryBread under ticks no longer than a limit *)

\* the limits D of a run's deltaTimes, ms
OvershootLimits == {0, 80, 1000}

\* rs keeps the limit of the run
OvershootInit ==
    /\ keys = NoKeys
    /\ ground = NewGround(GameGroundLevel)
    /\ duck = NoDuck
    /\ bread = NewAngryBread(PatrolStartX, PatrolStartY, PatrolDistance)
    /\ anim = NoAnim
    /\ \E limit \in OvershootLimits : rs = [pc |-> "overshoot", limit |-> limit]
    /\ RestIdle

OvershootTick(deltaTime) ==
    /\ deltaTime <= rs.limit
    /\ BreadTick(deltaTime)

OvershootNext ==
    \/ \E size \in BreadSpriteSizes : BreadSpriteLoad(size)
    \/ GroundSpriteLoad
    \/ \E dt \in BreadDeltaTimes : OvershootTick(dt)

OvershootSpec == OvershootInit /\ [][OvershootNext]_vars

----------------------------------------------------------------------------
(* The InputHandler under keydown and keyup events *)

\* rs keeps, for each key name, the kind of the last event that named it
InputInit ==
    /\ keys = NoKeys
    /\ rs = [pc |-> "input", last |-> [k \in KeyNames |-> "none"]]
    /\ ground = NewGround(GameGroundLevel)
    /\ duck = NoDuck
    /\ bread = NoBread
    /\ anim = NoAnim
    /\ RestIdle

\* a keydown event, also the repeats of a key that is held
InputKeyDown(k) ==
    /\ keys' = handleKeyDown(keys, k)
    /\ rs' = [rs EXCEPT !.last[k] = "keydown"]
    /\ UNCHANGED <<ground, duck, bread, anim, cam, fr, draw, game>>

\* a keyup event, also for a key whose keydown went elsewhere
InputKeyUp(k) ==
    /\ keys' = handleKeyUp(keys, k)
    /\ rs' = [rs EXCEPT !.last[k] = "keyup"]
    /\ UNCHANGED <<ground, duck, bread, anim, cam, fr, draw, game>>

InputNext ==
    \/ \E k \in KeyNames : InputKeyDown(k)
    \/ \E k \in KeyNames : InputKeyUp(k)

InputSpec == InputInit /\ [][InputNext]_vars

----------------------------------------------------------------------------
(* Claims *)

HalfFrameHeight == Px(frameHeight) \div 2

\* the duck's bottom edge rests on the standing surface
OnSurface(d, g) == d.y + HalfFrameHeight = getGroundLevel(g)

\* the duck's animation object exists
Initialised(d) == d.animation # <<>>

\* a step that is a Duck.update: the steps of DuckNext and DuckGroundNext
\* that leave the keys, the ground and the sprites' loaded flags alone
DuckUpdated ==
    /\ UNCHANGED <<keys, ground>>
    /\ duck'.walkingLoaded = duck.walkingLoaded
    /\ duck'.runningLoaded = duck.runningLoaded
    /\ duck'.jumpingLoaded = duck.jumpingLoaded
    /\ duck'.idleLoaded = duck.idleLoaded

\* DuckUpdated singles out the Duck.update steps
DuckUpdatedIsTick == [][DuckUpdated <=> \E dt \in DeltaTimes : DuckTick(dt)]_vars

\* C1: after every Duck.update made while the animation is initialised,
\* currentAnimType is Jump if the duck is airborne, else Run if a horizontal
\* key and Shift are held, else Walk if a horizontal key is held, else Idle.
C1_Expected(airborne, ks) ==
    CASE airborne -> ANIM_JUMP
      [] ~airborne /\ Moving(ks) /\ isKeyPressed(ks, "Shift") -> ANIM_RUN
      [] ~airborne /\ Moving(ks) /\ ~isKeyPressed(ks, "Shift") -> ANIM_WALK
      [] ~airborne /\ ~Moving(ks) -> ANIM_IDLE

C1_AnimTypeSelection ==
    [][(DuckUpdated /\ Initialised(duck))
           => duck'.currentAnimType = C1_Expected(duck'.isJumping, keys)]_vars

\* the first airborne tick of a jump started with jump and move-right held
C1_Witness ==
    /\ Initialised(duck)
    /\ inputIsJumping(keys) /\ isMovingRight(keys) /\ ~isMovingLeft(keys)
    /\ duck.isJumping
    /\ duck.velocityY = Accelerate(PxPerSec(jumpForce), gravity, TickMs)
    /\ duck.velocityX > 0
    /\ duck.currentAnimType = ANIM_JUMP

\* C2: no double jump.  On a tick that starts grounded with jump intent the
\* vertical velocity is the impulse plus gravity; on every other tick, and so
\* on every tick that starts airborne, it is the old velocity plus gravity
\* (zero when the tick ends on the surface).
C2_NoDoubleJump ==
    [][\A dt \in DeltaTimes :
          DuckTick(dt) =>
              LET from == IF ~duck.isJumping /\ inputIsJumping(keys)
                          THEN PxPerSec(jumpForce) ELSE duck.velocityY
              IN  duck'.velocityY = IF OnSurface(duck', ground) THEN 0
                                    ELSE Accelerate(from, gravity, dt)]_vars

\* an airborne duck past the top of its jump with a jump key held
C2_Witness ==
    /\ duck.isJumping
    /\ inputIsJumping(keys)
    /\ duck.velocityY > 0
    /\ ~OnSurface(duck, ground)

\* C3: at the end of every Duck.update the grounded flag is the result of
\* that tick's surface test: clamped to the surface with velocityY 0 and
\* grounded when the bottom edge after integration is at or below the
\* surface, not grounded otherwise.
C3_GroundedFromSurfaceTest ==
    [][\A dt \in DeltaTimes :
          DuckTick(dt) =>
              LET moved == DuckIntegrate(DuckJump(DuckHorizontal(duck, keys), keys), dt)
              IN  IF moved.y + HalfFrameHeight >= getGroundLevel(ground)
                  THEN /\ OnSurface(duck', ground)
                       /\ duck'.velocityY = 0
                       /\ ~duck'.isJumping
                  ELSE duck'.isJumping]_vars

\* C4: once an entity has been clamped to the surface, the same ground
\* resolution applied again changes neither y nor velocityY.
C4_Clamped(kind, e, g) == IF kind = "duck" THEN OnSurface(e, g) ELSE e.isOnGround

C4_ClampIdempotent ==
    (rs.pc = "twice" /\ C4_Clamped(rs.kind, rs.before[1], ground))
        => /\ rs.entity.y = rs.before[1].y
           /\ rs.entity.velocityY = rs.before[1].velocityY

\* an AngryBread resolved twice, the ground sprite loaded (the test and the
\* clamp then use different heights)
C4_Witness ==
    /\ rs.pc = "twice"
    /\ rs.kind = "bread"
    /\ ground.groundLoaded
    /\ rs.before[1].isOnGround
    /\ rs.entity.y = getGroundLevel(ground) - HalfScaledHeight(rs.entity.frameHeight)

\* C5: while the duck stays airborne in the Jump state the frame index never
\* decreases, and stays at 15 once there; the tick on which it lands starts
\* the selected strip at frame 0.
C5_Strip(type) ==
    CASE type = ANIM_WALK -> WalkAnimation
      [] type = ANIM_RUN -> RunAnimation
      [] type = ANIM_JUMP -> JumpAnimation
      [] type = ANIM_IDLE -> IdleAnimation

C5_JumpFrames ==
    [][\A dt \in DeltaTimes :
          (DuckTick(dt) /\ Initialised(duck)
               /\ duck.isJumping /\ duck.currentAnimType = ANIM_JUMP)
          => IF duck'.isJumping
             THEN /\ duck'.animation[1].currentFrame >= duck.animation[1].currentFrame
                  /\ duck.animation[1].currentFrame = 15
                         => duck'.animation[1].currentFrame = 15
             ELSE duck'.animation[1] \in
                      {C5_Strip(duck'.currentAnimType),
                       AnimationUpdate(C5_Strip(duck'.currentAnimType), dt)}]_vars

\* C6: a non-looping Animation never passes its last frame and stays on it
\* once there, under update calls; a looping one goes from its last frame
\* to frame 0.
C6_NonLoopingFreeze ==
    [][\A dt \in AnimDeltaTimes :
          AnimUpdate(dt) =>
              LET last == anim.frameCount - 1 IN
              /\ ~anim.loop => /\ anim'.currentFrame <= last
                               /\ anim.currentFrame = last => anim'.currentFrame = last
              /\ (anim.loop /\ anim.currentFrame = last
                      /\ anim'.currentFrame # anim.currentFrame)
                     => anim'.currentFrame = 0]_vars

\* a non-looping 16-frame Animation on its last frame, time accumulating
C6_Witness ==
    /\ anim.frameCount = 16
    /\ ~anim.loop
    /\ anim.currentFrame = 15
    /\ anim.elapsedTime > 0

\* C7: whenever the duck has an animation, its frame index is within the
\* frame count of the duck's current animation state.
C7_FrameCount(type) ==
    CASE type = ANIM_IDLE -> 5
      [] type = ANIM_WALK -> 7
      [] type = ANIM_RUN -> 4
      [] type = ANIM_JUMP -> 16

C7_FrameIndexInRange ==
    Initialised(duck) =>
        /\ duck.animation[1].currentFrame >= 0
        /\ duck.animation[1].currentFrame < C7_FrameCount(duck.currentAnimType)

\* C8: a tick that keeps the animation state leaves the frame clock running
\* (no reset before the frame advance); a tick that changes the state
\* starts the new state's strip at frame 0, elapsed time 0, before the
\* frame advance.
C8_ResetOnStateChange ==
    [][\A dt \in DeltaTimes :
          (DuckTick(dt) /\ Initialised(duck))
          => LET clock == IF duck'.currentAnimType = duck.currentAnimType
                          THEN duck.animation[1]
                          ELSE C5_Strip(duck'.currentAnimType)
             IN  duck'.animation[1] \in {clock, AnimationUpdate(clock, dt)}]_vars

\* C9: one Animation.update call moves currentFrame by at most one frame.
C9_OneFramePerUpdate ==
    [][\A dt \in AnimDeltaTimes :
          AnimUpdate(dt) =>
              \/ anim'.currentFrame = anim.currentFrame
              \/ anim'.currentFrame = anim.currentFrame + 1
              \/ /\ anim.currentFrame = anim.frameCount - 1
                 /\ anim'.currentFrame = 0]_vars

\* a 16-frame Animation of 50 ms frames that has just left frame 0
C9_Witness ==
    /\ anim.frameCount = 16
    /\ anim.frameDuration = 50
    /\ anim.currentFrame = 1
    /\ anim.elapsedTime = 0

\* C10: with startX 1000 and patrolDistance 150, x stays within
\* [850, 1150] and the direction flips exactly on the ticks that start with
\* x at one of those bounds.
C10_PatrolBounds ==
    [][\A dt \in BreadDeltaTimes :
          BreadTick(dt) =>
              /\ bread'.x <= Px(PatrolStartX + PatrolDistance)
              /\ bread'.x >= Px(PatrolStartX - PatrolDistance)
              /\ bread'.facingLeft # bread.facingLeft
                     <=> bread.x \in {Px(PatrolStartX + PatrolDistance),
                                      Px(PatrolStartX - PatrolDistance)}]_vars

\* r is v clamped into [lo, hi]: v itself when it lies in the interval, else
\* the end of the interval nearer to v
IsClamped(r, v, lo, hi) ==
    /\ lo <= r /\ r <= hi
    /\ (lo <= v /\ v <= hi) => r = v
    /\ v < lo => r = lo
    /\ v > hi => r = hi

\* C11 as claimed: whatever the bounds, followTarget(x, y) leaves targetX at
\* x - viewportWidth/2 clamped into [minX, maxX - viewportWidth].
C11_FollowClampsAnyBounds ==
    \A x \in CamTargets :
        IsClamped(followTarget(cam, CamPx(x)).targetX,
                  CamPx(x) - cam.viewportWidth \div 2,
                  cam.minX, cam.maxX - cam.viewportWidth)

\* C11: when the world is at least as wide as the viewport, followTarget(x, y)
\* leaves targetX at x - viewportWidth/2 clamped into
\* [minX, maxX - viewportWidth]; when it is narrower, targetX is minX.
C11_FollowClamps ==
    \A x \in CamTargets :
        LET r == followTarget(cam, CamPx(x)).targetX
            lo == cam.minX
            hi == cam.maxX - cam.viewportWidth
        IN  IF lo <= hi
            THEN IsClamped(r, CamPx(x) - cam.viewportWidth \div 2, lo, hi)
            ELSE r = lo

\* followTarget(7950, y) has clamped the target to 8000 - 1200
C11_Witness ==
    /\ cam.viewportWidth = CamPx(1200)
    /\ cam.minX = 0 /\ cam.maxX = CamPx(8000)
    /\ cam.targetX = CamPx(6800)

\* C12: after any sequence of setBounds, setSmoothing, followTarget and
\* update calls the camera x lies within [minX, maxX - viewportWidth].
C12_AnchorWithinBounds ==
    /\ cam.minX <= cam.x
    /\ cam.x <= cam.maxX - cam.viewportWidth

\* C13 as claimed: after followTarget(7950, y) with bounds [0, 8000] and
\* viewport width 1200, updates with a positive deltaTime move x toward 6800
\* without passing it, and x eventually is 6800.
C13_ConvergesTo6800 ==
    /\ [][cam.x <= cam'.x /\ cam'.x <= CamPx(WorldMaxX - WideViewport)]_vars
    /\ <>(cam.x = CamPx(WorldMaxX - WideViewport))

\* C13: the updates move x toward 6800 without passing it, and with
\* updates of 17 ms x eventually is 6800.
C13_ConvergesAt17ms ==
    /\ [][cam.x <= cam'.x /\ cam'.x <= CamPx(WorldMaxX - WideViewport)]_vars
    /\ (game.frameMs = 17) ~> (cam.x = CamPx(WorldMaxX - WideViewport))

\* 17 ms frames have brought x to 6800
C13_Witness ==
    /\ game.frameMs = 17
    /\ cam.targetX = CamPx(WorldMaxX - WideViewport)
    /\ cam.x = cam.targetX

\* C14: with the same intent held, one Duck.update(1000) and 100
\* Duck.update(10) from the same start state end at the same x and y.
C14_StepSizeIndependent ==
    (fr.coarseDone /\ fr.fineDone = FineSteps)
        => /\ fr.coarse.x = fr.fine.x
           /\ fr.coarse.y = fr.fine.y

\* C15: a sprite draw covers the screen interval
\* [screenX - w/2, screenX + w/2] whether the entity faces left (drawn under
\* scale(-1, 1) at -(screenX + w/2)) or right, for the Duck and the
\* AngryBread.
C15_MirrorFootprint ==
    draw.pc \in {"drawn", "restored"}
        => draw.footprint = <<draw.screenX - draw.width \div 2,
                              draw.screenX + draw.width \div 2>>

\* the left-facing duck drawn at screen x 500 covers [462, 538]
C15_Witness ==
    /\ draw.pc = "restored"
    /\ draw.kind = "duck"
    /\ draw.facingLeft
    /\ draw.screenX = DrawPx(500)
    /\ draw.footprint = <<DrawPx(462), DrawPx(538)>>

\* C16: a Duck.update with a left key held leaves the duck facing left,
\* otherwise one with a right key held leaves it facing right, and one with
\* no horizontal key held leaves its facing as it was.
C16_FacingFollowsIntent ==
    [][DuckUpdated =>
           duck'.facingLeft = (CASE isMovingLeft(keys) -> TRUE
                                 [] ~isMovingLeft(keys) /\ isMovingRight(keys) -> FALSE
                                 [] ~isMovingLeft(keys) /\ ~isMovingRight(keys)
                                        -> duck.facingLeft)]_vars

\* an airborne duck that has stopped moving and still faces left
C16_Witness ==
    /\ duck.facingLeft
    /\ ~Moving(keys)
    /\ duck.velocityX = 0
    /\ duck.isJumping
    /\ duck.x < Px(DuckStartX + MaxDuckTravel)

\* C17: at most one game-loop callback is pending at any time and an
\* animation frame runs one update pass followed by one render pass, never
\* more
C17_OnePassPerFrame ==
    /\ game.pending + game.queue <= 1
    /\ game.passes \in {<<>>, <<"update", "render">>}

\* a step of GameSpec in which an update pass runs
UpdatePassRuns == Len(game'.passes) > Len(game.passes)

C19_DeltaIsFrameDifference ==
    [][(UpdatePassRuns /\ game.prevCallback >= 0) =>
           /\ game'.deltaTime = game.now - game.prevCallback
           /\ game'.deltaTime >= 0]_vars

\* C20: in the render pass of every tick, whatever the order of the sprite
\* loads, the duck draws the placeholder exactly while its animation is
\* null and otherwise a sprite whose load has finished, and the enemy
\* draws nothing before its walking sprite has loaded
C20_DrawsLoadedOnly ==
    [][draw'.ticks > draw.ticks =>
           /\ draw'.duck.op \in {"fillRect", "drawImage"}
           /\ (draw'.duck.op = "fillRect") <=> (duck'.animation = <<>>)
           /\ draw'.duck.op = "drawImage" => DuckSpriteLoaded(duck', draw'.duck.image)
           /\ draw'.bread.op \in {"none", "drawImage"}
           /\ ~bread'.walkingSpriteLoaded => draw'.bread.op = "none"]_vars

\* a tick drew the running sprite while another sprite was still loading,
\* and the enemy drew its sprite
C20_Witness ==
    /\ draw.pc = "rendered"
    /\ draw.duck = [op |-> "drawImage", image |-> "running"]
    /\ ~duck.walkingLoaded
    /\ draw.bread.op = "drawImage"

\* C21: whatever frame index the duck's Animation holds, the source
\* rectangle Duck.render draws from is an entry of the frame table of the
\* current animation state
C21_RectOfCurrentTable ==
    Initialised(duck) =>
        \E i \in 1 .. Len(FrameTable(duck.currentAnimType)) :
            DuckSourceRect(duck) = FrameTable(duck.currentAnimType)[i]

\* the Animation's frame lies beyond the table of the current state
C21_Witness ==
    /\ Initialised(duck)
    /\ duck.animation[1].currentFrame >= Len(FrameTable(duck.currentAnimType))

\* C25: for a frame index f in range the source rectangle is
\* (f * 76, 0, 76, 90) on a single-row strip and
\* ((f mod 8) * 76, floor(f / 8) * 90, 76, 90) on the jump sheet
C25_SourceRectMapping ==
    (Initialised(duck)
         /\ duck.animation[1].currentFrame < C7_FrameCount(duck.currentAnimType))
    => LET f == duck.animation[1].currentFrame IN
       /\ DuckSourceRect(duck).width = 76
       /\ DuckSourceRect(duck).height = 90
       /\ IF duck.currentAnimType = ANIM_JUMP
          THEN /\ DuckSourceRect(duck).x = (f % 8) * 76
               /\ DuckSourceRect(duck).y = (f \div 8) * 90
          ELSE /\ DuckSourceRect(duck).x = f * 76
               /\ DuckSourceRect(duck).y = 0

\* the jump strip on a frame of the sheet's second row
C25_Witness ==
    /\ Initialised(duck)
    /\ duck.currentAnimType = ANIM_JUMP
    /\ duck.currentSprite = "jumping"
    /\ duck.animation[1].currentFrame >= JumpColumns

\* C23: after every Duck.update velocityX is -650 or -200 when left is
\* held (with or without Shift), else 650 or 200 when right is held, else
\* 0, whatever it was before
C23_VelocityFromIntent ==
    [][DuckUpdated =>
           duck'.velocityX =
               (IF isMovingLeft(keys)
                THEN (IF keys["Shift"] THEN PxPerSec(-650) ELSE PxPerSec(-200))
                ELSE IF isMovingRight(keys)
                THEN (IF keys["Shift"] THEN PxPerSec(650) ELSE PxPerSec(200))
                ELSE 0)]_vars

\* left, right and Shift held at once: the updated duck runs to the left
C23_Witness ==
    /\ keys["ArrowLeft"] /\ keys["ArrowRight"] /\ keys["Shift"]
    /\ duck.velocityX = PxPerSec(-650)
    /\ duck.x > Px(DuckStartX)

\* C22: an Animation with frameCount 0 or frameDuration <= 0 is rejected
\* by the constructor: every Animation that exists has at least one frame
\* and a positive frame duration, and its frame index is within
\* [0, frameCount - 1]
C22_MalformedRejected ==
    rs.pc = "constructed" =>
        /\ anim.frameCount >= 1
        /\ anim.frameDuration > 0
        /\ anim.currentFrame >= 0
        /\ anim.currentFrame <= anim.frameCount - 1

\* C24: an enemy tick marks the enemy on-ground, and snaps it to
\* surface - scaledHeight / 2, exactly when its bottom edge
\* y + scaledHeight / 2 after integration is at or below the surface height
\* ground.getGroundLevel() returns, with and without the ground sprite
C24_OneSurface ==
    [][\A dt \in BreadDeltaTimes :
          BreadTick(dt) =>
              LET vy == Accelerate(bread.velocityY, BreadGravity, dt)
                  y == Advance(bread.y, vy, dt)
                  half == HalfScaledHeight(bread.frameHeight)
                  surface == getGroundLevel(ground)
              IN  /\ bread'.isOnGround <=> (y + half >= surface)
                  /\ bread'.isOnGround => bread'.y = surface - half]_vars

\* the exact result of the first conversion of a trip, X and Y
TripExactX == IF cam.first = "worldToScreen" THEN cam.p - cam.x ELSE cam.p + cam.x

TripExactY == IF cam.first = "worldToScreen" THEN cam.p - cam.y ELSE cam.p + cam.y

\* C26: worldToScreen(p) is p - anchor, and screenToWorld after
\* worldToScreen, and worldToScreen after screenToWorld, give p back, for
\* X and for Y
C26_RoundTripExact ==
    /\ cam.pc \in {"mid", "done"} => (cam.midX = TripExactX /\ cam.midY = TripExactY)
    /\ cam.pc = "done" => (cam.backX = cam.p /\ cam.backY = cam.p)

\* C26 as amended: the first conversion gives p - anchor (or p + anchor)
\* rounded to the nearest representable number, and the trip there and back
\* gives p up to twice the rounding error of the first conversion: p itself
\* when the first result needed no rounding
C26_RoundTripUpToRounding ==
    /\ cam.pc \in {"mid", "done"} =>
           (cam.midX = FloatRound(TripExactX) /\ cam.midY = FloatRound(TripExactY))
    /\ cam.pc = "done" =>
           /\ Abs(cam.backX - cam.p) <= 2 * Abs(cam.midX - TripExactX)
           /\ Abs(cam.backY - cam.p) <= 2 * Abs(cam.midY - TripExactY)

\* a trip whose first result needed no rounding although the anchor is not
\* zero, and one on the other axis that was rounded
C26_Witness ==
    /\ cam.pc = "done"
    /\ cam.x > 0
    /\ cam.midX = TripExactX
    /\ cam.backX = cam.p
    /\ cam.midY # TripExactY

\* C28: a new Animation starts on frame 0 with elapsed time 0; after every
\* update the elapsed time is at most the frame duration; and an update
\* that changes the frame leaves the elapsed time at 0
C28_ElapsedResets ==
    /\ (anim.currentFrame = 0 /\ anim.elapsedTime = 0)
    /\ [](anim.elapsedTime <= anim.frameDuration)
    /\ [][\A dt \in AnimDeltaTimes :
             (AnimUpdate(dt) /\ anim'.currentFrame # anim.currentFrame)
             => anim'.elapsedTime = 0]_vars

\* a frame change right after time had accumulated on the frame before
C28_Witness ==
    /\ anim.frameCount = 4
    /\ anim.currentFrame = 3
    /\ anim.elapsedTime = 0
    /\ anim.frameDuration = 100

\* C29: an update advances the frame when the accumulated time exceeds the
\* frame duration, and the elapsed time is then reduced by one frame
\* duration, the remainder carried into the next frame
C29_RemainderCarried ==
    [][\A dt \in AnimDeltaTimes :
          AnimUpdate(dt) =>
              LET elapsed == anim.elapsedTime + dt IN
              IF elapsed > anim.frameDuration
              THEN /\ anim'.currentFrame = NextFrame(anim, anim.currentFrame)
                   /\ anim'.elapsedTime = elapsed - anim.frameDuration
              ELSE /\ anim'.currentFrame = anim.currentFrame
                   /\ anim'.elapsedTime = elapsed]_vars

\* C29 as amended: an update advances the frame exactly when the
\* accumulated time exceeds the frame duration (reaching it is not enough),
\* and the elapsed time then restarts at 0, the remainder discarded
C29_RemainderDiscarded ==
    [][\A dt \in AnimDeltaTimes :
          AnimUpdate(dt) =>
              LET elapsed == anim.elapsedTime + dt IN
              IF elapsed > anim.frameDuration
              THEN /\ anim'.currentFrame = NextFrame(anim, anim.currentFrame)
                   /\ anim'.elapsedTime = 0
              ELSE /\ anim'.currentFrame = anim.currentFrame
                   /\ anim'.elapsedTime = elapsed]_vars

\* the accumulated time has reached the frame duration exactly and the
\* frame has not advanced
C29_Witness ==
    /\ anim.elapsedTime = anim.frameDuration
    /\ anim.currentFrame = 2

\* s is the beginning of t
IsPrefix(s, t) == Len(s) <= Len(t) /\ \A i \in 1 .. Len(s) : s[i] = t[i]

\* the tick done statement group by statement group leaves the duck that
\* Duck.update leaves in one step
StageMatchesUpdate ==
    game.pc \in {"enemies", "follow", "camera", "render"}
    => duck = DuckUpdate(game.before, keys, ground, TickMs)

\* C27: a tick runs duck integration, ground resolution, animation-state
\* selection and frame-clock advance in this order, then the enemies and
\* the camera, then the render pass; the selection uses isJumping as this
\* tick's ground resolution left it; the camera follows the duck's position
\* after its update; and the render pass changes neither duck, enemy nor
\* camera
C27_TickOrder ==
    /\ [](IsPrefix(game.log,
                   <<"integrate", "resolve", "select", "advance", "enemies",
                     "follow", "camera", "render">>))
    /\ []((game.pc = "idle" /\ game.ticks > 0)
              => cam.targetX = followTarget(cam, CamFromWorld(duck.x)).targetX)
    /\ [][(game.pc = "select" /\ Initialised(duck))
              => duck'.currentAnimType =
                     SelectAnimType(game.resolved, Moving(keys), Running(keys))]_vars
    /\ [][game.pc = "render"
              => (duck' = duck /\ bread' = bread /\ cam' = cam)]_vars

\* a tick on which the duck landed while walking far into the world: the
\* walk strip was selected and the camera target moved with the duck
C27_Witness ==
    /\ game.pc = "idle"
    /\ game.before.isJumping
    /\ ~duck.isJumping
    /\ duck.currentAnimType = ANIM_WALK
    /\ duck.x > game.before.x
    /\ cam.targetX > CamPx(600)

\* C30: under every interleaving of Duck.update calls, key events and
\* sprite loads, a duck that has an animation plays and draws the strip of
\* its current animation state: the Animation has that strip's image, frame
\* count and frame duration (Idle 5/120, Walk 7/60, Run 4/40, Jump 16/50),
\* and the sprite drawn is that strip's image.
C30_StripOfCurrentState ==
    Initialised(duck) =>
        /\ duck.animation[1].image = C5_Strip(duck.currentAnimType).image
        /\ duck.animation[1].frameCount = C5_Strip(duck.currentAnimType).frameCount
        /\ duck.animation[1].frameDuration = C5_Strip(duck.currentAnimType).frameDuration
        /\ DuckRender(duck).image = C5_Strip(duck.currentAnimType).image

\* C31: while ticks with positive deltaTime keep coming, the AngryBread
\* turns round again and again: it turns to face left only at or past the
\* right bound and then moves left, it turns to face right only at or past
\* the left bound and then moves right, and each tick's x, velocityX and
\* facingLeft follow from the x, velocityX and facingLeft before it, startX,
\* patrolDistance and deltaTime alone, whatever sprites have loaded.
C31_PatrolOscillates ==
    /\ []<>(bread.facingLeft /\ bread.velocityX < 0)
    /\ []<>(~bread.facingLeft /\ bread.velocityX > 0)
    /\ [][bread'.facingLeft # bread.facingLeft
              => IF bread'.facingLeft
                 THEN bread.x - bread.startX >= bread.patrolDistance
                 ELSE bread.x - bread.startX <= -bread.patrolDistance]_vars
    /\ [][\A dt \in PatrolDeltaTimes :
              BreadTick(dt)
              => LET moved == updatePatrolMovement(
                                  [x |-> bread.x, velocityX |-> bread.velocityX,
                                   facingLeft |-> bread.facingLeft,
                                   startX |-> Px(PatrolStartX),
                                   patrolDistance |-> Px(PatrolDistance)], dt)
                 IN  /\ bread'.x = moved.x
                     /\ bread'.velocityX = moved.velocityX
                     /\ bread'.facingLeft = moved.facingLeft]_vars

\* the enemy has turned at the left bound, after the turn at the right one
C31_Witness ==
    /\ ~bread.facingLeft
    /\ bread.velocityX > 0
    /\ bread.x < bread.startX - bread.patrolDistance + Px(50)
    /\ bread.x > bread.startX - bread.patrolDistance

\* C32: the AngryBread's walk frame index is always one of 0..4; an update
\* whose accumulated animation time has reached 100 ms moves it to the next
\* frame, from frame 4 to frame 0, and sets the accumulated time to 0; any
\* other update leaves the frame and keeps the accumulated time.
C32_WalkFrames ==
    /\ [](bread.currentFrame \in 0 .. 4)
    /\ [][\A dt \in WalkDeltaTimes :
              WalkTick(dt)
              => IF bread.animationTime + dt >= 100
                 THEN /\ bread'.currentFrame =
                             IF bread.currentFrame = 4 THEN 0 ELSE bread.currentFrame + 1
                      /\ bread'.animationTime = 0
                 ELSE /\ bread'.currentFrame = bread.currentFrame
                      /\ bread'.animationTime = bread.animationTime + dt]_vars

\* frame 4 has gone to frame 0 on an update whose accumulated time was the
\* frame duration exactly
C32_Witness ==
    /\ rs.updates >= 5
    /\ rs.accumulated = 100
    /\ bread.currentFrame = 0
    /\ bread.animationTime = 0

\* C33: at the end of every tick neither the duck nor the AngryBread is
\* below the surface: the duck's y + frameHeight / 2 and the enemy's
\* y + scaledHeight / 2 are at most getGroundLevel().
C33_NoneBelowSurface ==
    [][rs'.updates # rs.updates
           => /\ duck'.y + HalfFrameHeight <= getGroundLevel(ground')
              /\ bread'.y + HalfScaledHeight(bread'.frameHeight)
                     <= getGroundLevel(ground')]_vars

\* after a tick both rest on the sprite ground's surface, the enemy with the
\* frame height its sprite gave it
C33_Witness ==
    /\ rs.pc = "surface"
    /\ rs.updates > 0
    /\ ground.groundLoaded
    /\ bread.frameHeight # BreadFrameSize
    /\ duck.y + HalfFrameHeight = getGroundLevel(ground)
    /\ bread.y + HalfScaledHeight(bread.frameHeight) = getGroundLevel(ground)

\* C34: while ticks with positive deltaTime keep coming, a duck that is
\* airborne (isJumping) is later grounded again with velocityY 0, whatever
\* keys are held.
C34_JumpEnds == duck.isJumping ~> (~duck.isJumping /\ duck.velocityY = 0)

\* the duck is falling back from a jump, above the surface, with the jump
\* key still held
C34_Witness ==
    /\ duck.isJumping
    /\ duck.velocityY > 0
    /\ inputIsJumping(keys)
    /\ ~OnSurface(duck, ground)

\* C35: a tick of more than 0 and less than 500 ms that starts with a jump
\* key held and the duck resting on the surface ends with the duck
\* airborne: isJumping, velocityY negative and the bottom edge above the
\* surface.
C35_JumpLeavesGround ==
    [][(rs'.updates # rs.updates
            /\ inputIsJumping(keys) /\ ~duck.isJumping /\ OnSurface(duck, ground)
            /\ rs'.deltaTime > 0 /\ rs'.deltaTime < 500)
           => /\ duck'.isJumping
              /\ duck'.velocityY < 0
              /\ duck'.y + HalfFrameHeight < getGroundLevel(ground')]_vars

\* a jump from rest on the sprite ground's surface on a tick of 499 ms
C35_Witness ==
    /\ rs.pc = "hop"
    /\ rs.fromRest
    /\ rs.deltaTime = 499
    /\ ground.groundLoaded
    /\ duck.isJumping

\* C36: when every deltaTime is at most D ms, the AngryBread's distance
\* from startX is always less than patrolDistance + 50 * D / 1000 pixels.
C36_OvershootBound ==
    rs.pc = "overshoot"
    => Abs(bread.x - bread.startX)
           < bread.patrolDistance + (Px(50) * rs.limit) \div 1000

\* with ticks of at most 80 ms the enemy is past the right bound, by half
\* a tick's travel
C36_Witness ==
    /\ rs.pc = "overshoot"
    /\ rs.limit = 80
    /\ bread.x - bread.startX = bread.patrolDistance + Px(2)

\* C37: in every state of an AngryBread facingLeft is true exactly when
\* velocityX is negative, and velocityX is 50 or -50 pixels per second.
C37_FacingIsVelocitySign ==
    /\ bread.facingLeft <=> bread.velocityX < 0
    /\ bread.velocityX \in {PxPerSec(50), -PxPerSec(50)}

\* the enemy has turned at the right bound and walked back past its spawn
\* point
C37_Witness ==
    /\ bread.facingLeft
    /\ bread.velocityX < 0
    /\ bread.x < bread.startX
    /\ bread.isOnGround

\* C38: a sprite load that arrives when the duck's animation exists leaves
\* the duck's position, velocity, facing, animation state, frame index and
\* elapsed frame time as they were.
C38_LoadKeepsClock ==
    [][(Initialised(duck)
            /\ \E sprite \in DuckSprites :
                   ~DuckSpriteLoaded(duck, sprite) /\ DuckSpriteLoaded(duck', sprite))
           => /\ duck'.x = duck.x
              /\ duck'.y = duck.y
              /\ duck'.velocityX = duck.velocityX
              /\ duck'.velocityY = duck.velocityY
              /\ duck'.facingLeft = duck.facingLeft
              /\ duck'.currentAnimType = duck.currentAnimType
              /\ duck'.animation[1].currentFrame = duck.animation[1].currentFrame
              /\ duck'.animation[1].elapsedTime = duck.animation[1].elapsedTime]_vars

\* C39: isKeyPressed(k) is true exactly when the last event that named k
\* was a keydown, and when no key name's last event is a keydown,
\* isMovingLeft, isMovingRight, isJumping and isShooting are all false.
C39_PressedIsLastEvent ==
    rs.pc = "input"
    => /\ \A k \in KeyNames : isKeyPressed(keys, k) <=> rs.last[k] = "keydown"
       /\ (\A k \in KeyNames : rs.last[k] # "keydown")
              => /\ ~isMovingLeft(keys)
                 /\ ~isMovingRight(keys)
                 /\ ~inputIsJumping(keys)
                 /\ ~isShooting(keys)

\* every key name has gone down and up again
C39_Witness ==
    /\ rs.pc = "input"
    /\ \A k \in KeyNames : rs.last[k] = "keyup"
    /\ \A k \in KeyNames : ~isKeyPressed(keys, k)

====
